---- MODULE Spec2Model ----
(***************************************************************************)
(* State-machine model of the ASIN navigation benchmark environment        *)
(* (src/src/asin_env.py, src/src/utils.py, src/src/logic.py).              *)
(*                                                                         *)
(* Numbers.  Python floats are modelled as tagged fixed-point values       *)
(*   [k |-> "fin", v |-> n]   a finite value n                             *)
(*   [k |-> "nan", v |-> 0]   NaN                                          *)
(*   [k |-> "inf", v |-> s]   +inf (s = 1) or -inf (s = -1)                *)
(* Headings are in whole degrees, coordinates in micro-degrees.            *)
(* Text.  A str is a sequence of one-character strings, so that strip,     *)
(* lower and split are computed and not assumed.                           *)
(***************************************************************************)
EXTENDS Integers, Sequences, FiniteSets, TLC

VARIABLES
    sessions,   \* ASINEnv.sessions: session_id -> state dict
    call,       \* the last call made on the environment: operation and arguments
    ret,        \* the dict that call returned (exactly the keys the code returns)
    hist,       \* history per session id ever started: calls since its last start
    sel,        \* the task_config handed to _determine_level (pure-function run)
    resolved,   \* the level _determine_level returned for sel (0: not called yet)
    world,      \* the routing collaborator: how it answers a directions request
    runs,       \* generate_route calls in progress: run id -> frame of the call
    global_rng, \* state of the module-level generator of random
    arg,        \* arguments of a geometry or scoring function (pure-function run)
    returned,   \* what that function returned for arg (<<>>: not called yet)
    assessment  \* the frame of ASINGreenA2AAgent.run (<<>>: no run in progress)

vars ==
    <<sessions, call, ret, hist, sel, resolved, world, runs, global_rng, arg, returned,
      assessment>>

\* the variables of the route generator and of the pure-function runs
genvars == <<world, runs, global_rng>>
purevars == <<arg, returned>>

\* what a call of the environment leaves alone
othervars == <<sel, resolved, genvars, purevars>>

(***************************************************************************)
(* Bounds of the model                                                     *)
(***************************************************************************)
MaxActs == 2        \* act calls per session in Spec
MaxNavActs == 3     \* act calls per session in SpecNav
MaxTurnActs == 3    \* act calls per session in SpecTurn
MaxForward == 1     \* forward moves per session in SpecLimit
MaxOver == 1        \* act calls past the step limit in SpecLimit
MaxFieldVal == 11   \* largest integer a selector field takes
MaxCounter == 12    \* value at which the task counter of the agent stops

SessionIds == {"s1", "s2"}

(***************************************************************************)
(* utils.py: configuration                                                 *)
(***************************************************************************)
STEP_SIZE_METERS == 15

Levels == 1..10

LEVEL_CONFIG ==
    [l \in Levels |->
        CASE l = 1  -> [dist |-> 200,  waypoints |-> 0, weight |-> 1]
          [] l = 2  -> [dist |-> 400,  waypoints |-> 0, weight |-> 2]
          [] l = 3  -> [dist |-> 600,  waypoints |-> 0, weight |-> 3]
          [] l = 4  -> [dist |-> 800,  waypoints |-> 0, weight |-> 4]
          [] l = 5  -> [dist |-> 1000, waypoints |-> 0, weight |-> 5]
          [] l = 6  -> [dist |-> 1200, waypoints |-> 1, weight |-> 6]
          [] l = 7  -> [dist |-> 1500, waypoints |-> 1, weight |-> 7]
          [] l = 8  -> [dist |-> 1800, waypoints |-> 1, weight |-> 8]
          [] l = 9  -> [dist |-> 2000, waypoints |-> 1, weight |-> 9]
          [] l = 10 -> [dist |-> 2500, waypoints |-> 1, weight |-> 10]]

(***************************************************************************)
(* Python floats                                                           *)
(***************************************************************************)
Fin(n) == [k |-> "fin", v |-> n]
NaN == [k |-> "nan", v |-> 0]
Inf(s) == [k |-> "inf", v |-> s]

\* a - b and a + b on floats: nan is absorbing, inf - inf is nan
FloatNeg(a) == IF a.k = "nan" THEN NaN ELSE [k |-> a.k, v |-> 0 - a.v]

FloatAdd(a, b) ==
    IF a.k = "nan" \/ b.k = "nan" THEN NaN
    ELSE IF a.k = "inf" /\ b.k = "inf" THEN (IF a.v = b.v THEN a ELSE NaN)
    ELSE IF a.k = "inf" THEN a
    ELSE IF b.k = "inf" THEN b
    ELSE Fin(a.v + b.v)

FloatSub(a, b) == FloatAdd(a, FloatNeg(b))

\* x % 360: the result has the sign of the divisor; inf % 360 and nan % 360 are nan
FloatMod360(a) == IF a.k = "fin" THEN Fin(a.v % 360) ELSE NaN

(***************************************************************************)
(* Python str: strip, lower, split, float()                                *)
(***************************************************************************)
IsSpace(c) == c = " "

Upper == [c \in {"f", "l", "r", "q", "n", "a", "i", "x", "e", "v", "t", "s", "k"} |->
            CASE c = "f" -> "F" [] c = "l" -> "L" [] c = "r" -> "R"
              [] c = "q" -> "Q" [] c = "n" -> "N" [] c = "a" -> "A"
              [] c = "i" -> "I" [] c = "x" -> "X" [] c = "e" -> "E"
              [] c = "v" -> "V" [] c = "t" -> "T" [] c = "s" -> "S"
              [] c = "k" -> "K"]

LowerChar(c) ==
    IF c \in {Upper[d] : d \in DOMAIN Upper}
    THEN CHOOSE d \in DOMAIN Upper : Upper[d] = c
    ELSE c

Lower(s) == [i \in 1..Len(s) |-> LowerChar(s[i])]

RECURSIVE LStrip(_)
LStrip(s) == IF s # <<>> /\ IsSpace(Head(s)) THEN LStrip(Tail(s)) ELSE s

RECURSIVE RStrip(_)
RStrip(s) ==
    IF s # <<>> /\ IsSpace(s[Len(s)]) THEN RStrip(SubSeq(s, 1, Len(s) - 1)) ELSE s

Strip(s) == RStrip(LStrip(s))

RECURSIVE SplitAcc(_, _, _)
SplitAcc(s, cur, out) ==
    IF s = <<>> THEN (IF cur = <<>> THEN out ELSE Append(out, cur))
    ELSE IF IsSpace(Head(s))
         THEN SplitAcc(Tail(s), <<>>, IF cur = <<>> THEN out ELSE Append(out, cur))
         ELSE SplitAcc(Tail(s), Append(cur, Head(s)), out)

\* str.split() with no separator: runs of whitespace separate, no empty parts
Split(s) == SplitAcc(s, <<>>, <<>>)

Digits == {"0", "1", "2", "3", "4", "5", "6", "7", "8", "9"}

DigitVal(c) ==
    CASE c = "0" -> 0 [] c = "1" -> 1 [] c = "2" -> 2 [] c = "3" -> 3
      [] c = "4" -> 4 [] c = "5" -> 5 [] c = "6" -> 6 [] c = "7" -> 7
      [] c = "8" -> 8 [] c = "9" -> 9

RECURSIVE DecVal(_)
DecVal(ds) ==
    IF ds = <<>> THEN 0 ELSE 10 * DecVal(SubSeq(ds, 1, Len(ds) - 1)) + DigitVal(ds[Len(ds)])

AllDigits(ds) == ds # <<>> /\ \A i \in 1..Len(ds) : ds[i] \in Digits

\* float(tok): [ok |-> TRUE, val |-> float] or [ok |-> FALSE] for a ValueError.
\* Covers signed whole numbers, "nan" and "inf"; every other token of the
\* alphabet above is a ValueError.
ParseFloat(tok) ==
    LET signed == tok # <<>> /\ Head(tok) \in {"-", "+"}
        sgn == IF tok # <<>> /\ Head(tok) = "-" THEN -1 ELSE 1
        body == IF signed THEN Tail(tok) ELSE tok
    IN  IF AllDigits(body) THEN [ok |-> TRUE, val |-> Fin(sgn * DecVal(body))]
        ELSE IF body = <<"n", "a", "n">> THEN [ok |-> TRUE, val |-> NaN]
        ELSE IF body = <<"i", "n", "f">> THEN [ok |-> TRUE, val |-> Inf(sgn)]
        ELSE [ok |-> FALSE, val |-> NaN]

(***************************************************************************)
(* utils.py: geometry.  Coordinates are floats holding micro-degrees; the  *)
(* spherical direct formula is taken to first order in d/R, which is what  *)
(* it amounts to for a 15 m step, in fixed point.                          *)
(***************************************************************************)
EARTH_RADIUS_HM == 63781      \* R = 6378.1 km, in units of 100 m

\* truncating division, as a float product rounds symmetrically about 0
DivT(a, b) == IF a >= 0 THEN a \div b ELSE 0 - ((0 - a) \div b)

\* 1000 * sin(x degrees) for 0 <= x <= 180 (Bhaskara's rational form)
SinHalf(x) == (4000 * x * (180 - x)) \div (40500 - x * (180 - x))

SinMilli(d) ==
    LET x == d % 360 IN IF x <= 180 THEN SinHalf(x) ELSE 0 - SinHalf(x - 180)

CosMilli(d) == SinMilli(d + 90)

\* math.degrees(1 rad) * 10^4, with pi = 355/113
RadToDegE4 == (180 * 113 * 10000) \div 355

\* micro-degrees of arc per km on the sphere of radius R
MicroDegPerKm == (RadToDegE4 * 1000) \div EARTH_RADIUS_HM

Pos(lat, lon) == <<Fin(lat), Fin(lon)>>
NaNPos == <<NaN, NaN>>

\* get_destination_point(lat, lon, bearing, distance_meters) -> (lat2, lon2)
get_destination_point(lat, lon, bearing, distance_meters) ==
    IF bearing.k # "fin" \/ lat.k # "fin" THEN NaNPos
    ELSE
      LET north == DivT(MicroDegPerKm * CosMilli(bearing.v), 1000)
          east == DivT(MicroDegPerKm * SinMilli(bearing.v), CosMilli(lat.v \div 1000000))
          dlat == DivT(distance_meters * north, 1000)
          dlon == DivT(distance_meters * east, 1000)
      IN  <<Fin(lat.v + dlat), FloatAdd(lon, Fin(dlon))>>

\* floor of the square root (math.sqrt on the fixed-point grid)
RECURSIVE SqrtIter(_, _)
SqrtIter(n, x) ==
    LET y == (x + n \div x) \div 2 IN IF y >= x THEN x ELSE SqrtIter(n, y)

ISqrt(n) == IF n <= 0 THEN 0 ELSE SqrtIter(n, IF n < 46340 THEN n ELSE 46340)

Abs(a) == IF a >= 0 THEN a ELSE 0 - a

\* haversine_distance uses R = 6371000 m: 1.1119 dm of arc per micro-degree
HAV_DM_PER_MICRODEG_E4 == 11119

\* north-south and east-west extent, in decimetres, of a difference in
\* micro-degrees at latitude lat
NorthDm(dlat) == DivT(dlat * HAV_DM_PER_MICRODEG_E4, 10000)

EastDm(dlon, lat) ==
    DivT(DivT(dlon * CosMilli(lat \div 1000000), 1000) * HAV_DM_PER_MICRODEG_E4, 10000)

\* haversine_distance on finite coordinates, in decimetres: the small-angle
\* form of the formula (a = (dphi/2)^2 + cos^2(phi) (dlambda/2)^2)
HavDm(lat1, lon1, lat2, lon2) ==
    LET dy == NorthDm(lat2 - lat1)
        dx == EastDm(lon2 - lon1, lat1)
    IN  ISqrt(dy * dy + dx * dx)

\* haversine_distance(lat1, lon1, lat2, lon2) on floats: nan in, nan out
haversine_distance(p, q) ==
    IF p[1].k # "fin" \/ p[2].k # "fin" \/ q[1].k # "fin" \/ q[2].k # "fin" THEN NaN
    ELSE Fin(HavDm(p[1].v, p[2].v, q[1].v, q[2].v))

\* calculate_initial_bearing(start, end) in whole degrees of [0, 360): the
\* direction whose unit vector lies closest to (x, y), x = sin(dlon) cos(lat2)
\* and y = cos(lat1) sin(lat2) - sin(lat1) cos(lat2) cos(dlon) to first order
Along(x, y, b) == DivT(x * SinMilli(b), 1000) + DivT(y * CosMilli(b), 1000)

Greatest(values) == CHOOSE m \in values : \A r \in values : m >= r

Least(values) == CHOOSE m \in values : \A r \in values : m <= r

\* math.degrees(math.atan2(x, y)) brought into [0, 360)
BearingOf(x, y, most) == Least({b \in 0..359 : Along(x, y, b) = most})

Bearing(x, y) ==
    IF x = 0 /\ y = 0 THEN 0
    ELSE BearingOf(x, y, Greatest({Along(x, y, b) : b \in 0..359}))

calculate_initial_bearing(p, q) ==
    Fin(Bearing(EastDm(q[2].v - p[2].v, p[1].v), NorthDm(q[1].v - p[1].v)))

(***************************************************************************)
(* asin_env.py: _determine_level.  A task_config is                        *)
(*   [t |-> "none"] (None), [t |-> "empty"] (""),                          *)
(*   [t |-> "text", text] (any other scalar, as str() prints it), or       *)
(*   [t |-> "dict", level, task_index, index] whose fields are             *)
(*   [k |-> "absent"] (key missing), [k |-> "int", v |-> n] (int() gives   *)
(*   n) or [k |-> "bad"] (int() raises).                                   *)
(***************************************************************************)
Absent == [k |-> "absent", v |-> 0]
IntField(n) == [k |-> "int", v |-> n]
BadField == [k |-> "bad", v |-> 0]

ConfigNone == [t |-> "none", level |-> Absent, task_index |-> Absent, index |-> Absent]
ConfigEmpty == [t |-> "empty", level |-> Absent, task_index |-> Absent, index |-> Absent]
ConfigDict(lv, ti, ix) == [t |-> "dict", level |-> lv, task_index |-> ti, index |-> ix]

\* faulty variant: the task index taken as the level itself (no + 1)
index_key_no_offset(f) ==
    IF f.k = "int" /\ 1 <= f.v /\ f.v <= 10
    THEN [hit |-> TRUE, lvl |-> f.v] ELSE [hit |-> FALSE, lvl |-> 0]

\* the try-block of one key: [hit |-> TRUE, lvl |-> n] when it returns n
level_key(f) ==
    IF f.k = "int" /\ 1 <= f.v /\ f.v <= 10
    THEN [hit |-> TRUE, lvl |-> f.v] ELSE [hit |-> FALSE, lvl |-> 0]

\* faulty variant: an index past 9 wraps around to the levels 1..10
index_key_wrapping(f) ==
    IF f.k = "int" /\ 1 <= f.v + 1
    THEN [hit |-> TRUE, lvl |-> (f.v % 10) + 1] ELSE [hit |-> FALSE, lvl |-> 0]

index_key(f) ==
    IF f.k = "int" /\ 1 <= f.v + 1 /\ f.v + 1 <= 10
    THEN [hit |-> TRUE, lvl |-> f.v + 1] ELSE [hit |-> FALSE, lvl |-> 0]

\* str(n) for an int n
DigitChar(d) == CHOOSE c \in Digits : DigitVal(c) = d

RECURSIVE NatStr(_)
NatStr(n) == IF n < 10 THEN <<DigitChar(n)>> ELSE Append(NatStr(n \div 10), DigitChar(n % 10))

IntStr(n) == IF n < 0 THEN <<"-">> \o NatStr(0 - n) ELSE NatStr(n)

\* \w of the re module: letters, digits and the underscore
IsWordChar(c) ==
    \/ c \in Digits
    \/ c = "_"
    \/ c \in DOMAIN Upper
    \/ c \in {Upper[d] : d \in DOMAIN Upper}

\* re.search(r"\blevel\b", s_lower): "level" with no word character on
\* either side
search_level_word(s) ==
    \E i \in 1..Len(s) :
        /\ i + 4 <= Len(s)
        /\ SubSeq(s, i, i + 4) = <<"l", "e", "v", "e", "l">>
        /\ i = 1 \/ ~IsWordChar(s[i - 1])
        /\ i + 4 = Len(s) \/ ~IsWordChar(s[i + 5])

\* positions where (-?\d+) can start to match
IntegerStarts(s) ==
    {i \in 1..Len(s) :
        \/ s[i] \in Digits
        \/ s[i] = "-" /\ i < Len(s) /\ s[i + 1] \in Digits}

\* int(re.search(r"(-?\d+)", s_lower).group(1)): the leftmost match, the
\* digits taken greedily; found is FALSE when search returns None
search_integer(s) ==
    IF IntegerStarts(s) = {} THEN [found |-> FALSE, val |-> 0]
    ELSE LET i == CHOOSE x \in IntegerStarts(s) : \A y \in IntegerStarts(s) : x <= y
             first == IF s[i] = "-" THEN i + 1 ELSE i
             last == CHOOSE j \in first..Len(s) :
                        /\ \A k \in first..j : s[k] \in Digits
                        /\ j = Len(s) \/ s[j + 1] \notin Digits
             digits == DecVal(SubSeq(s, first, last))
         IN  [found |-> TRUE, val |-> IF s[i] = "-" THEN 0 - digits ELSE digits]

\* faulty variant: the integer read as a zero-based index only
index_reading_no_fallback(idx) ==
    IF 1 <= idx + 1 /\ idx + 1 <= 10 THEN [hit |-> TRUE, lvl |-> idx + 1]
    ELSE [hit |-> FALSE, lvl |-> 0]

\* lvl = idx + 1; if 1 <= lvl <= 10: return lvl; if 1 <= idx <= 10: return idx
index_reading(idx) ==
    IF 1 <= idx + 1 /\ idx + 1 <= 10 THEN [hit |-> TRUE, lvl |-> idx + 1]
    ELSE IF 1 <= idx /\ idx <= 10 THEN [hit |-> TRUE, lvl |-> idx]
    ELSE [hit |-> FALSE, lvl |-> 0]

\* the scalar/string branch: s = str(task_config).strip(); s_lower = s.lower()
text_level(text) ==
    LET s_lower == Lower(Strip(text))
        m == search_integer(s_lower)
    IN  IF search_level_word(s_lower) /\ m.found /\ 1 <= m.val /\ m.val <= 10
        THEN m.val
        ELSE IF m.found /\ index_reading(m.val).hit THEN index_reading(m.val).lvl
        ELSE 1

\* a free-text selector; first records the integer the text was written
\* around (Absent: the text holds no integer)
ConfigText(text, first) ==
    [t |-> "text", level |-> Absent, task_index |-> Absent, index |-> Absent,
     text |-> text, first |-> first]

determine_level(task_config) ==
    IF task_config.t \in {"none", "empty"} THEN 1
    ELSE IF task_config.t = "text" THEN text_level(task_config.text)
    ELSE IF level_key(task_config.level).hit THEN level_key(task_config.level).lvl
    ELSE IF index_key(task_config.task_index).hit
         THEN index_key(task_config.task_index).lvl
    ELSE IF index_key(task_config.index).hit THEN index_key(task_config.index).lvl
    ELSE 1

(***************************************************************************)
(* logic.py: polyline length and truncation.  Lengths are in decimetres.   *)
(***************************************************************************)
Min(a, b) == IF a <= b THEN a ELSE b

Max(a, b) == IF a >= b THEN a ELSE b

RECURSIVE LengthFrom(_, _)
LengthFrom(pts, i) ==
    IF i >= Len(pts) THEN 0
    ELSE HavDm(pts[i][1].v, pts[i][2].v, pts[i + 1][1].v, pts[i + 1][2].v)
            + LengthFrom(pts, i + 1)

\* _polyline_length_meters(pts)
polyline_length_meters(pts) == IF Len(pts) < 2 THEN 0 ELSE LengthFrom(pts, 1)

\* faulty variant: the whole target laid along the crossing segment
crossing_point_from_start(p1, p2, traveled, seg, target) ==
    LET t == Max(0, Min(seg, target))
    IN  Pos(p1[1].v + DivT((p2[1].v - p1[1].v) * t, seg),
            p1[2].v + DivT((p2[2].v - p1[2].v) * t, seg))

\* remaining = target - traveled; t = max(0.0, min(1.0, remaining / seg));
\* (lat, lon) = p1 + (p2 - p1) * t
crossing_point(p1, p2, traveled, seg, target) ==
    LET remaining == Max(0, Min(seg, target - traveled))
    IN  Pos(p1[1].v + DivT((p2[1].v - p1[1].v) * remaining, seg),
            p1[2].v + DivT((p2[2].v - p1[2].v) * remaining, seg))

\* the for loop of _truncate_polyline_to_meters from segment i on; seg is
\* the length of segment i
RECURSIVE TruncateFrom(_, _, _, _, _)
RECURSIVE TruncateSegment(_, _, _, _, _, _)
TruncateSegment(pts, i, acc, traveled, target, seg) ==
    IF seg <= 0 THEN TruncateFrom(pts, i + 1, acc, traveled, target)
    ELSE IF traveled + seg >= target
    THEN Append(acc, crossing_point(pts[i], pts[i + 1], traveled, seg, target))
    ELSE TruncateFrom(pts, i + 1, Append(acc, pts[i + 1]), traveled + seg, target)

TruncateFrom(pts, i, acc, traveled, target) ==
    IF i >= Len(pts) THEN acc
    ELSE TruncateSegment(pts, i, acc, traveled, target,
                         HavDm(pts[i][1].v, pts[i][2].v, pts[i + 1][1].v, pts[i + 1][2].v))

\* return out, self._polyline_length_meters(out)
WithLength(cut) == [poly |-> cut, dist |-> polyline_length_meters(cut)]

\* _truncate_polyline_to_meters(pts, target_meters) -> (polyline, length)
truncate_polyline_to_meters(pts, target) ==
    IF Len(pts) < 2 THEN [poly |-> pts, dist |-> 0]
    ELSE IF target <= 0 THEN [poly |-> <<pts[1]>>, dist |-> 0]
    ELSE WithLength(TruncateFrom(pts, 1, <<pts[1]>>, 0, target))

(***************************************************************************)
(* Random numbers.  random.Random(seed) is a generator whose state is a    *)
(* function of the seed and whose draws are a function of its state; the   *)
(* Mersenne Twister is replaced by a full-period congruential generator.   *)
(***************************************************************************)
RngMod == 16

\* random.Random(seed)
RngSeed(seed) == seed % RngMod

\* the state after one draw
RngNext(state) == (5 * state + 3) % RngMod

\* rng.uniform(a, b) = a + (b - a) * random(), drawn in state
Uniform(state, a, b) == a + DivT((b - a) * state, RngMod)

(***************************************************************************)
(* The routing collaborator (googlemaps directions).  world.answers is the *)
(* kind of answer it gives, by where the request starts; world.shape is    *)
(* the course of the roads.  The same request is answered the same way.    *)
(***************************************************************************)
NYC_BOUNDS ==
    [lat_min |-> 40730000, lat_max |-> 40790000,
     lon_min |-> 0 - 74000000, lon_max |-> 0 - 73960000]

Manhattan == <<"W 34th St", "New York, NY">>
Brooklyn == <<"Bedford Ave", "Brooklyn, NY">>

\* "Manhattan" in addr or "New York, NY" in addr
is_manhattan(addr) == \E i \in 1..Len(addr) : addr[i] \in {"Manhattan", "New York, NY"}

AnswerKinds ==
    {"ok", "error", "empty", "outside_start", "outside_end", "outside_mid",
     "short", "short_poly", "late_waypoint", "one_leg", "outside_leg_start"}

\* polyline.decode gives coordinates of 5 decimals
Snap(x) == (x \div 10) * 10

Shift(p, dlat, dlon) == Pos(p[1].v + dlat, p[2].v + dlon)

\* the overview polyline of a route of about 3 km from p (the one to the
\* east repeats a vertex)
OverviewPolyline(shape, p) ==
    CASE shape = "north" ->
            <<p, Shift(p, 9000, 0), Shift(p, 18000, 0), Shift(p, 27000, 0)>>
      [] shape = "east" ->
            <<p, Shift(p, 0, 12000), Shift(p, 0, 12000), Shift(p, 0, 24000),
              Shift(p, 0, 36000)>>
      [] shape = "loop" ->
            <<p, Shift(p, 720, 0), Shift(p, 720, 470), Shift(p, 0, 470),
              Shift(p, 0 - 26000, 470)>>

Leg(from, to, meters, a, b) ==
    [start_address |-> a, end_address |-> b, distance |-> meters,
     start_location |-> from, end_location |-> to]

\* what client.directions(origin, destination, waypoints) gives:
\* "error" (an exception), "empty" ([]) or one route of len(waypoints) + 1
\* legs ("one_leg": of a single leg whatever the waypoints;
\* "outside_leg_start": the second leg starts at an address of its own)
directions(w, request) ==
    LET cell == (request.origin[1].v - NYC_BOUNDS.lat_min) \div 3750
                    + (request.origin[2].v - NYC_BOUNDS.lon_min) \div 2500
        kind == w.answers[(cell % Len(w.answers)) + 1]
        p == Pos(Snap(request.origin[1].v), Snap(request.origin[2].v))
        poly == IF kind = "short_poly" THEN <<p, Shift(p, 900, 0)>>
                ELSE OverviewPolyline(w.shape, p)
        total == IF kind = "short" THEN 150 ELSE 3000
        first == IF kind = "late_waypoint" THEN 2600 ELSE 1000
        a == IF kind = "outside_start" THEN Brooklyn ELSE Manhattan
        b == IF kind = "outside_end" THEN Brooklyn ELSE Manhattan
        m == IF kind = "outside_mid" THEN Brooklyn ELSE Manhattan
        m2 == IF kind = "outside_leg_start" THEN Brooklyn ELSE m
        legs == IF request.waypoints = <<>> \/ kind = "one_leg"
                THEN <<Leg(p, poly[Len(poly)], total, a, b)>>
                ELSE <<Leg(p, poly[2], Min(first, total), a, m),
                       Leg(poly[2], poly[Len(poly)], total - Min(first, total), m2, b)>>
    IN  [status |-> IF kind \in {"error", "empty"} THEN kind ELSE "ok",
         legs |-> legs, overview_polyline |-> poly]

(***************************************************************************)
(* logic.py: generate_route                                                *)
(***************************************************************************)
max_attempts == 100

NoRoute == [ok |-> FALSE, data |-> <<>>]

InBounds(lat, lon) ==
    /\ NYC_BOUNDS.lat_min < lat /\ lat < NYC_BOUNDS.lat_max
    /\ NYC_BOUNDS.lon_min < lon /\ lon < NYC_BOUNDS.lon_max

\* the random walk: k more points from (lat, lon); ok is FALSE when a point
\* left the bounds (the draws after it are not made)
RECURSIVE RandomWalk(_, _, _, _, _, _)
RandomWalk(state, lat, lon, deg_offset, k, pts) ==
    IF k = 0 THEN [rng |-> state, ok |-> TRUE, pts |-> pts]
    ELSE LET s1 == RngNext(state)
             s2 == RngNext(s1)
             next_lat == lat + Uniform(s1, 0 - deg_offset, deg_offset)
             next_lon == lon + Uniform(s2, 0 - deg_offset, deg_offset)
         IN  IF ~InBounds(next_lat, next_lon)
             THEN [rng |-> s2, ok |-> FALSE, pts |-> pts]
             ELSE RandomWalk(s2, next_lat, next_lon, deg_offset, k - 1,
                             Append(pts, Pos(next_lat, next_lon)))

\* faulty variant: the last waypoint stays where the last leg ends
assemble_route_full_end(legs, cut, route_dist_meters) ==
    [route_poly |-> cut.poly,
     generated_waypoints |->
        [i \in 1..(Len(legs) + 1) |->
            IF i = 1 THEN legs[1].start_location ELSE legs[i - 1].end_location],
     start_pos |-> cut.poly[1],
     start_heading |->
        IF Len(cut.poly) > 1 THEN calculate_initial_bearing(cut.poly[1], cut.poly[2])
        ELSE Fin(0),
     total_dist |-> cut.dist,
     original_total_dist |-> route_dist_meters]

\* the route dict assembled from an answer and its truncated polyline
assemble_route(legs, cut, route_dist_meters) ==
    [route_poly |-> cut.poly,
     generated_waypoints |->
        [i \in 1..(Len(legs) + 1) |->
            IF i = 1 THEN legs[1].start_location
            ELSE IF i = Len(legs) + 1 THEN cut.poly[Len(cut.poly)]
            ELSE legs[i - 1].end_location],
     start_pos |-> cut.poly[1],
     start_heading |->
        IF Len(cut.poly) > 1 THEN calculate_initial_bearing(cut.poly[1], cut.poly[2])
        ELSE Fin(0),
     total_dist |-> cut.dist,
     original_total_dist |-> route_dist_meters]

\* sum(leg['distance']['value'] for leg in legs)
SumDistances(legs) ==
    IF Len(legs) = 1 THEN legs[1].distance ELSE legs[1].distance + legs[2].distance

\* faulty variant: the ends of the route only
outside_region_ends(legs) ==
    ~is_manhattan(legs[1].start_address) \/ ~is_manhattan(legs[Len(legs)].end_address)

\* the two address checks: start of the first leg and end of the last one,
\* then the end of every leg before the last
outside_region(legs) ==
    \/ ~is_manhattan(legs[1].start_address) \/ ~is_manhattan(legs[Len(legs)].end_address)
    \/ \E i \in 1..(Len(legs) - 1) : ~is_manhattan(legs[i].end_address)

\* faulty variant: no guard band
stops_before_waypoint_never(num_waypoints, legs, target_dist) == FALSE

\* if num_waypoints >= 1 and len(legs) >= 2: if target_dist <= first_leg_dist + 25
stops_before_waypoint(num_waypoints, legs, target_dist) ==
    num_waypoints >= 1 /\ Len(legs) >= 2 /\ target_dist <= legs[1].distance + 25

\* the validations of one answer, in the order of the code; the route
\* dict when all of them pass
validate_route(level, answer) ==
    LET target_dist == LEVEL_CONFIG[level].dist
        num_waypoints == LEVEL_CONFIG[level].waypoints
        legs == answer.legs
        n == Len(legs)
    IN  IF answer.status # "ok" THEN NoRoute
        ELSE IF outside_region(legs) THEN NoRoute
        ELSE IF SumDistances(legs) < target_dist THEN NoRoute
        ELSE IF polyline_length_meters(answer.overview_polyline) < target_dist * 10
        THEN NoRoute
        ELSE IF stops_before_waypoint(num_waypoints, legs, target_dist) THEN NoRoute
        ELSE [ok |-> TRUE,
              data |-> assemble_route(legs,
                            truncate_polyline_to_meters(answer.overview_polyline,
                                                        target_dist * 10),
                            SumDistances(legs))]

\* the request of a pass whose walk stayed in bounds, and its outcome
attempt_answer(level, walk, answer) ==
    [rng |-> walk.rng, requested |-> TRUE, answer |-> answer,
     route |-> validate_route(level, answer)]

attempt_request(w, level, origin, walk) ==
    IF ~walk.ok THEN [rng |-> walk.rng, requested |-> FALSE, answer |-> <<>>, route |-> NoRoute]
    ELSE attempt_answer(level, walk,
            directions(w, [origin |-> origin,
                           destination |-> walk.pts[Len(walk.pts)],
                           waypoints |-> SubSeq(walk.pts, 1, Len(walk.pts) - 1)]))

\* the walk of a pass from its origin
attempt_walk(w, level, state, lat, lon) ==
    attempt_request(w, level, Pos(lat, lon),
        RandomWalk(state, lat, lon,
                   (LEVEL_CONFIG[level].dist * 1000)
                        \div (111 * (LEVEL_CONFIG[level].waypoints + 1)),
                   LEVEL_CONFIG[level].waypoints + 1, <<>>))

\* one pass of the for loop from generator state `state`: the state after
\* its draws, whether directions was called, and the route if it passed
attempt(w, level, state) ==
    attempt_walk(w, level, RngNext(RngNext(state)),
        Uniform(RngNext(state), NYC_BOUNDS.lat_min, NYC_BOUNDS.lat_max),
        Uniform(RngNext(RngNext(state)), NYC_BOUNDS.lon_min, NYC_BOUNDS.lon_max))

\* passes n .. stop - 1 of the for loop (0-based): the route of the first
\* pass that returns, and the generator state left behind
RECURSIVE AttemptsUpTo(_, _, _, _, _)
RECURSIVE AfterAttempt(_, _, _, _, _)
AfterAttempt(w, level, n, stop, a) ==
    IF a.route.ok THEN [route |-> a.route, rng |-> a.rng]
    ELSE AttemptsUpTo(w, level, a.rng, n + 1, stop)

AttemptsUpTo(w, level, state, n, stop) ==
    IF n >= stop THEN [route |-> NoRoute, rng |-> state]
    ELSE AfterAttempt(w, level, n, stop, attempt(w, level, state))

\* the for loop from pass number n on, ten passes at a time
RECURSIVE AttemptsFrom(_, _, _, _)
RECURSIVE AfterBlock(_, _, _, _)
AfterBlock(w, level, stop, block) ==
    IF block.route.ok THEN block.route ELSE AttemptsFrom(w, level, block.rng, stop)

AttemptsFrom(w, level, state, n) ==
    IF n >= max_attempts THEN NoRoute
    ELSE AfterBlock(w, level, Min(n + 10, max_attempts),
                    AttemptsUpTo(w, level, state, n, Min(n + 10, max_attempts)))

\* collaborators: every request answered with a route; the service down;
\* answers that differ from request to request; first legs of 2.6 km
WorldOk(shape) == [answers |-> <<"ok">>, shape |-> shape]
WorldDown == [answers |-> <<"error">>, shape |-> "north"]
WorldMixed ==
    [answers |-> <<"empty", "outside_start", "short", "ok", "outside_end",
                   "short_poly", "outside_mid", "late_waypoint">>,
     shape |-> "east"]
WorldLate == [answers |-> <<"late_waypoint">>, shape |-> "north"]

\* collaborators that answer a request with a waypoint by a single leg, or
\* by a second leg whose start address differs from the end of the first
WorldMerged == [answers |-> <<"one_leg">>, shape |-> "north"]
WorldDetour ==
    [answers |-> <<"ok", "late_waypoint", "ok", "outside_leg_start",
                   "ok", "outside_mid", "ok", "outside_end">>,
     shape |-> "east"]

Worlds ==
    {WorldOk("north"), WorldOk("east"), WorldOk("loop"), WorldDown, WorldMixed, WorldLate}

\* the result of the loop for the seeds start passes, computed once
RouteTable ==
    [w \in Worlds |-> [l \in Levels |-> AttemptsFrom(w, l, RngSeed(1000 + l), 0)]]

\* generate_route(level, seed) against the collaborator w
generate_route(w, level, seed) ==
    IF seed = 1000 + level /\ w \in Worlds THEN RouteTable[w][level]
    ELSE AttemptsFrom(w, level, RngSeed(seed), 0)

(***************************************************************************)
(* utils.py: point_to_segment_distance; logic.py: calculate_final_score.   *)
(* Distances are in decimetres, scores in thousandths of a point, the      *)
(* progress ratio in ten-thousandths.  The projection parameter t is the   *)
(* fraction n / d.                                                         *)
(***************************************************************************)
IsFinite(p) == p[1].k = "fin" /\ p[2].k = "fin"

\* n / d brought to a denominator a product with a coordinate difference
\* or a length can take
Fraction(n, d, k) == [n |-> n \div k, d |-> d \div k]

\* t = max(0, min(1, num / den))
Clamped(num, den) == Fraction(Max(0, Min(den, num)), den, den \div 40000 + 1)

\* t of the point of the line through a and b nearest to p, clamped to the
\* segment; 0 on a segment of no extent
Projection(p, a, b) ==
    IF b[1].v = a[1].v /\ b[2].v = a[2].v THEN [n |-> 0, d |-> 1]
    ELSE Clamped((p[1].v - a[1].v) * (b[1].v - a[1].v)
                    + (p[2].v - a[2].v) * (b[2].v - a[2].v),
                 (b[1].v - a[1].v) * (b[1].v - a[1].v)
                    + (b[2].v - a[2].v) * (b[2].v - a[2].v))

\* nx = x1 + t * dx; ny = y1 + t * dy; haversine_distance(px, py, nx, ny)
DistanceAt(p, a, b, t) ==
    HavDm(p[1].v, p[2].v,
          a[1].v + DivT(t.n * (b[1].v - a[1].v), t.d),
          a[2].v + DivT(t.n * (b[2].v - a[2].v), t.d))

\* point_to_segment_distance(px, py, x1, y1, x2, y2) for a finite p
point_to_segment_distance(p, a, b) == DistanceAt(p, a, b, Projection(p, a, b))

\* faulty variant: the first segment only
nearest_distance_first_segment(p, route_poly) ==
    point_to_segment_distance(p, route_poly[1], route_poly[2])

\* min_dist of a finite walked point over the segments of the route
nearest_distance(p, route_poly) ==
    Least({point_to_segment_distance(p, route_poly[i], route_poly[i + 1]) :
                i \in 1..(Len(route_poly) - 1)})

\* total_error over the walked points from i on
RECURSIVE TotalError(_, _, _)
TotalError(walked_path, route_poly, i) ==
    IF i > Len(walked_path) THEN 0
    ELSE nearest_distance(walked_path[i], route_poly)
            + TotalError(walked_path, route_poly, i + 1)

\* avg_deviation: inf when some point has no finite distance to any segment
\* (a NaN point, or a route without segments)
average_deviation(walked_path, route_poly) ==
    IF Len(route_poly) < 2 \/ \E i \in 1..Len(walked_path) : ~IsFinite(walked_path[i])
    THEN Inf(1)
    ELSE Fin(TotalError(walked_path, route_poly, 1) \div Len(walked_path))

\* dest_score = 30 if dist_to_finish < 50 else 0
destination_bonus(dist_to_finish) ==
    IF dist_to_finish.k = "fin" /\ dist_to_finish.v < 500 THEN 30 ELSE 0

\* faulty variant: the max(0, ...) forgotten
base_similarity_unclamped(avg_deviation) ==
    IF avg_deviation.k = "inf" THEN 0 ELSE 70000 - 70 * avg_deviation.v

\* 70 * max(0, 1 - avg_deviation / 100.0)
base_similarity(avg_deviation) ==
    IF avg_deviation.k = "inf" THEN 0 ELSE Max(0, 70000 - 70 * avg_deviation.v)

\* faulty variant: of the segments at the least distance the last one (<= for <)
best_segment_last(final, route_poly) ==
    IF ~IsFinite(final) \/ Len(route_poly) < 2 THEN 0
    ELSE Greatest({i \in 1..(Len(route_poly) - 1) :
                    point_to_segment_distance(final, route_poly[i], route_poly[i + 1])
                        = nearest_distance(final, route_poly)})

\* the segment the projection loop keeps: the first one at the least
\* distance from the final position; 0 (best_seg_idx = -1) when no distance
\* compares below inf
best_segment(final, route_poly) ==
    IF ~IsFinite(final) \/ Len(route_poly) < 2 THEN 0
    ELSE Least({i \in 1..(Len(route_poly) - 1) :
                    point_to_segment_distance(final, route_poly[i], route_poly[i + 1])
                        = nearest_distance(final, route_poly)})

SegmentLength(route_poly, i) ==
    HavDm(route_poly[i][1].v, route_poly[i][2].v,
          route_poly[i + 1][1].v, route_poly[i + 1][2].v)

\* covered_distance over the segments from i on
RECURSIVE CoveredFrom(_, _, _, _)
CoveredFrom(route_poly, i, best, t) ==
    IF i >= Len(route_poly) THEN 0
    ELSE (IF i < best THEN SegmentLength(route_poly, i)
          ELSE IF i = best THEN DivT(SegmentLength(route_poly, i) * t.n, t.d)
          ELSE 0)
            + CoveredFrom(route_poly, i + 1, best, t)

\* covered_distance / total_distance, total_distance 1 when it is 0
Ratio(covered, total) == (covered * 10000) \div (IF total = 0 THEN 10 ELSE total)

projected_progress(final, route_poly, best) ==
    IF best = 0 THEN Ratio(0, polyline_length_meters(route_poly))
    ELSE Ratio(CoveredFrom(route_poly, 1, best,
                           Projection(final, route_poly[best], route_poly[best + 1])),
               polyline_length_meters(route_poly))

\* faulty variant: the override of the start comes last
progress_ratio_start_last(final, route_poly, dest_score) ==
    IF haversine_distance(final, route_poly[1]).k = "fin"
            /\ haversine_distance(final, route_poly[1]).v < 50
    THEN 0
    ELSE IF dest_score > 0 THEN 10000
    ELSE projected_progress(final, route_poly, best_segment(final, route_poly))

\* the two overrides, in the order of the code: within 5 m of the start the
\* ratio is 0; with the destination bonus it is 1
progress_ratio(final, route_poly, dest_score) ==
    IF dest_score > 0 THEN 10000
    ELSE IF haversine_distance(final, route_poly[1]).k = "fin"
            /\ haversine_distance(final, route_poly[1]).v < 50
    THEN 0
    ELSE projected_progress(final, route_poly, best_segment(final, route_poly))

\* total_score = dest_score + base_similarity_score * progress_ratio; base
\* and progress are the locals the total is made of
Scored(dest_score, base, progress, dist_to_finish, avg_deviation) ==
    [total |-> dest_score * 1000 + (base * progress) \div 10000,
     dest |-> dest_score,
     sim |-> (base * progress) \div 10000,
     dist |-> dist_to_finish,
     dev |-> avg_deviation,
     base |-> base,
     progress |-> progress]

ScoredWith(walked_path, route_poly, dest_score, dist_to_finish, avg_deviation) ==
    Scored(dest_score, base_similarity(avg_deviation),
           progress_ratio(walked_path[Len(walked_path)], route_poly, dest_score),
           dist_to_finish, avg_deviation)

ScoredAt(walked_path, route_poly, dist_to_finish) ==
    ScoredWith(walked_path, route_poly, destination_bonus(dist_to_finish),
               dist_to_finish, average_deviation(walked_path, route_poly))

\* calculate_final_score(walked_path, route_poly)
calculate_final_score(walked_path, route_poly) ==
    IF walked_path = <<>> \/ route_poly = <<>>
    THEN [total |-> 0, dest |-> 0, sim |-> 0, dist |-> Fin(0), dev |-> Fin(0),
          base |-> 0, progress |-> 0]
    ELSE ScoredAt(walked_path, route_poly,
                  haversine_distance(walked_path[Len(walked_path)],
                                     route_poly[Len(route_poly)]))

(***************************************************************************)
(* Images.  A rendered street view is a function of where it was taken;    *)
(* a failed fetch is None.                                                 *)
(***************************************************************************)
MapImage == <<"map">>
MapPlaceholder == <<"placeholder", "map">>
ViewPlaceholder == <<"placeholder", "view">>
ViewImage(pos, heading) == <<"view", pos, heading>>

(***************************************************************************)
(* asin_env.py: ASINEnv.start                                              *)
(***************************************************************************)
\* int(math.ceil(a / float(b))) for a >= 0, b > 0
CeilDiv(a, b) == (a + b - 1) \div b

\* faulty variant: the floor of 120 steps forgotten
step_limit_no_floor(target_dist_m) == CeilDiv(target_dist_m, STEP_SIZE_METERS) * 3

step_limit(target_dist_m) == Max(120, CeilDiv(target_dist_m, STEP_SIZE_METERS) * 3)

\* key in d
Has(d, key) == key \in DOMAIN d

\* faulty variant: the registry holds the last session only
Put_single(d, key, value) == [x \in {key} |-> value]

\* self.sessions[session_id] = state
Put(d, key, value) == [x \in (DOMAIN d) \cup {key} |-> IF x = key THEN value ELSE d[x]]

\* faulty variant: the cleanup forgotten
Pop_keeps(d, key) == d

\* self.sessions.pop(session_id, None)
Pop(d, key) == [x \in (DOMAIN d) \ {key} |-> d[x]]

\* history of a session: act calls and forward tokens since its start, whether
\* an act has returned done=true, whether result has read (and removed) it,
\* the last street view fetched with success (<<>>: none so far), and the
\* state the session's own start and acts give when nothing else runs
NewHist ==
    [acts |-> 0, forwards |-> 0, finished |-> FALSE, read |-> FALSE, rendered |-> <<>>,
     alone |-> <<>>]

\* faulty variant: a failed start drops the entry the id had
route_failure_drops(session_id) ==
    /\ ret' = [error |-> "Failed to generate route", done |-> TRUE]
    /\ sessions' = [x \in (DOMAIN sessions) \ {session_id} |-> sessions[x]]
    /\ UNCHANGED hist

\* if not route_data: return {"error": ..., "done": True}
route_failure(session_id) ==
    /\ ret' = [error |-> "Failed to generate route", done |-> TRUE]
    /\ UNCHANGED <<sessions, hist>>

\* faulty variant: the seed moves with the number of sessions open
route_seed_by_load(level) == 1000 + level + Cardinality(DOMAIN sessions)

\* seed = 1000 + level
route_seed(level) == 1000 + level

env_start(session_id, task_config, map_ok, view_ok) ==
    LET level == determine_level(task_config)
        seed == route_seed(level)
        rd == generate_route(world, level, seed)
        target_dist_m == LEVEL_CONFIG[level].dist
        r == rd.data
        map_b64 == IF map_ok THEN MapImage ELSE MapPlaceholder
        view_b64 == IF view_ok THEN ViewImage(r.start_pos, r.start_heading)
                    ELSE ViewPlaceholder
        state == [level |-> level,
                  route_poly |-> r.route_poly,
                  generated_waypoints |-> r.generated_waypoints,
                  current_pos |-> r.start_pos,
                  current_heading |-> r.start_heading,
                  walked_path |-> <<r.start_pos>>,
                  step_count |-> 0,
                  max_steps |-> step_limit(target_dist_m),
                  target_dist_m |-> target_dist_m,
                  route_dist_m |-> r.total_dist,
                  original_route_dist_m |-> r.original_total_dist,
                  map_b64 |-> map_b64,
                  last_view_b64 |-> view_b64]
    IN  /\ call' = [op |-> "start", sid |-> session_id, level |-> level,
                    seed |-> seed, generated |-> rd.ok,
                    map_ok |-> map_ok, view_ok |-> view_ok]
        /\ IF ~rd.ok
           THEN route_failure(session_id)
           ELSE /\ sessions' = Put(sessions, session_id, state)
                /\ hist' = Put(hist, session_id,
                                [NewHist EXCEPT !.rendered = IF view_ok THEN view_b64 ELSE <<>>,
                                                !.alone = state])
                /\ ret' = [images |-> <<map_b64, view_b64>>, done |-> FALSE,
                           info |-> [level |-> level]]

(***************************************************************************)
(* asin_env.py: ASINEnv.act                                                *)
(***************************************************************************)
\* raw action strings a navigator sends
Forward == <<"f">>
ForwardLoud == <<" ", "F", " ">>
Quit == <<"q">>
Left == <<"l">>
Right45 == <<"r", " ", "4", "5">>
LeftBad == <<"l", " ", "x">>
LeftNaN == <<"L", " ", "n", "a", "n">>
LeftWide == <<"l", " ", "3", "7", "0">>
RightTen == <<"r", " ", "1", "0">>
RightLoud == <<" ", "R", " ", " ", "1", "0", " ">>
Empty == <<>>
Junk == <<"x">>

RawActions ==
    { Forward, ForwardLoud, Quit, Left, Right45, LeftBad, LeftNaN, LeftWide, RightTen,
      RightLoud, Empty, Junk }

\* cmd = str(action).strip().lower(); parts = cmd.split()
PartsOf == [a \in RawActions |-> Split(Lower(Strip(a)))]

command_parts(action) == PartsOf[action]

base_command(action) ==
    LET parts == command_parts(action) IN IF parts # <<>> THEN parts[1] ELSE <<>>

\* deg = float(parts[1]) if len(parts) > 1 else 90
turn_degrees(parts) == IF Len(parts) > 1 THEN ParseFloat(parts[2]) ELSE [ok |-> TRUE, val |-> Fin(90)]

\* faulty variant: no wraparound
turn_left_unwrapped(heading, deg) == FloatSub(heading, deg)

\* (state["current_heading"] - deg) % 360
turn_left(heading, deg) == FloatMod360(FloatSub(heading, deg))

\* (state["current_heading"] + deg) % 360
turn_right(heading, deg) == FloatMod360(FloatAdd(heading, deg))

\* faulty variant: the new position is not appended to walked_path
move_forward_no_append(state) ==
    [state EXCEPT !.current_pos =
        get_destination_point(state.current_pos[1], state.current_pos[2],
                              state.current_heading, STEP_SIZE_METERS)]

\* the "f" branch: step STEP_SIZE_METERS along the heading, append the point
move_forward(state) ==
    LET p == get_destination_point(state.current_pos[1], state.current_pos[2],
                                   state.current_heading, STEP_SIZE_METERS)
    IN  [state EXCEPT !.current_pos = p, !.walked_path = Append(state.walked_path, p)]

\* faulty variant: a token that is no command moves like f
apply_command_any_moves(state, action) ==
    LET parts == command_parts(action)
        base_cmd == base_command(action)
        deg == turn_degrees(parts)
    IN  IF base_cmd = <<"l">>
        THEN (IF deg.ok
              THEN [state EXCEPT !.current_heading = turn_left(state.current_heading, deg.val)]
              ELSE state)
        ELSE IF base_cmd = <<"r">>
        THEN (IF deg.ok
              THEN [state EXCEPT !.current_heading = turn_right(state.current_heading, deg.val)]
              ELSE state)
        ELSE IF base_cmd = <<"q">> THEN state
        ELSE move_forward(state)

\* the state dict after the command branch (if/elif chain on base_cmd)
apply_command(state, action) ==
    LET parts == command_parts(action)
        base_cmd == base_command(action)
        deg == turn_degrees(parts)
    IN  IF base_cmd = <<"l">> /\ deg.ok
        THEN [state EXCEPT !.current_heading = turn_left(state.current_heading, deg.val)]
        ELSE IF base_cmd = <<"r">> /\ deg.ok
        THEN [state EXCEPT !.current_heading = turn_right(state.current_heading, deg.val)]
        ELSE IF base_cmd = <<"f">>
        THEN move_forward(state)
        ELSE state

\* faulty variant: the step is not counted
count_step_skipped(state) == state

\* state["step_count"] += 1
count_step(state) == [state EXCEPT !.step_count = state.step_count + 1]

\* faulty variant: > in place of >=
limit_reached_late(state) == state.step_count > state.max_steps

limit_reached(state) == state.step_count >= state.max_steps

\* faulty variant: the lookup registers an empty state (setdefault for get)
act_unknown_registers(session_id) ==
    /\ ret' = [error |-> "Session not found", done |-> TRUE]
    /\ sessions' = [x \in (DOMAIN sessions) \cup {session_id} |->
                        IF x = session_id THEN <<>> ELSE sessions[x]]
    /\ UNCHANGED hist

\* state = self.sessions.get(session_id); if not state: return {...}
act_unknown(session_id) ==
    /\ ret' = [error |-> "Session not found", done |-> TRUE]
    /\ UNCHANGED <<sessions, hist>>

\* faulty variant: the reason of q is kept when the limit is reached too
finish_info_quit_first(base_cmd, moved) ==
    IF base_cmd = <<"q">> THEN [reason |-> "Agent requested finish"]
    ELSE IF limit_reached(moved) THEN [reason |-> "Max steps exceeded"]
    ELSE <<>>

\* info after the command branch and the step check: the assignment of the
\* step check comes second and replaces the reason of q
finish_info(base_cmd, moved) ==
    IF limit_reached(moved) THEN [reason |-> "Max steps exceeded"]
    ELSE IF base_cmd = <<"q">> THEN [reason |-> "Agent requested finish"]
    ELSE <<>>

\* faulty variant: the placeholder whatever was rendered before
fallback_view_placeholder(state) == ViewPlaceholder

\* state.get("last_view_b64") or self.logic._placeholder_png_b64(...)
fallback_view(state) ==
    IF state.last_view_b64 # <<>> THEN state.last_view_b64 ELSE ViewPlaceholder

\* the view returned for the state after the command: the fetched one, or
\* the fallback when the fetch gave None
observed_view(moved, view_ok) ==
    IF view_ok THEN ViewImage(moved.current_pos, moved.current_heading)
    ELSE fallback_view(moved)

\* else: state["last_view_b64"] = view_b64
observe(moved, view_ok) ==
    IF view_ok THEN [moved EXCEPT !.last_view_b64 = observed_view(moved, view_ok)]
    ELSE moved

env_act(session_id, action, view_ok) ==
    /\ call' = [op |-> "act", sid |-> session_id, action |-> action, view_ok |-> view_ok]
    /\ IF session_id \notin DOMAIN sessions
       THEN act_unknown(session_id)
       ELSE LET base_cmd == base_command(action)
                moved == count_step(apply_command(sessions[session_id], action))
                done == base_cmd = <<"q">> \/ limit_reached(moved)
                reason == finish_info(base_cmd, moved)
                info == IF view_ok THEN reason
                        ELSE reason @@ [warning |-> "Street View fetch failed; using fallback image"]
                view_b64 == observed_view(moved, view_ok)
                state == observe(moved, view_ok)
                h == hist[session_id]
            IN  /\ sessions' = [sessions EXCEPT ![session_id] = state]
                /\ hist' = [hist EXCEPT ![session_id] =
                              [acts |-> h.acts + 1,
                               forwards |-> h.forwards + (IF base_cmd = <<"f">> THEN 1 ELSE 0),
                               finished |-> h.finished \/ done,
                               read |-> FALSE,
                               rendered |-> IF view_ok THEN view_b64 ELSE h.rendered,
                               alone |-> observe(count_step(apply_command(h.alone, action)),
                                                 view_ok)]]
                /\ ret' = [prompt |-> state.current_heading,
                           images |-> <<state.map_b64, view_b64>>,
                           done |-> done, info |-> info]

(***************************************************************************)
(* asin_env.py: ASINEnv.result                                             *)
(***************************************************************************)
\* polyline.encode rounds every coordinate to an int, which raises on NaN;
\* get_final_map_base64 encodes walked_path, outside its try, when it has
\* more than one point
final_map_raises(walked_path) ==
    /\ Len(walked_path) > 1
    /\ \E i \in 1..Len(walked_path) : walked_path[i][1].k # "fin" \/ walked_path[i][2].k # "fin"

\* faulty variant: the weight left out
weighted_score_raw(score, weight) == score

\* weighted_score = score * weight
weighted_score(score, weight) == score * weight

\* the dict result returns for the session state and its score
result_dict(state, scored, final_map_b64) ==
    [score |-> weighted_score(scored.total, LEVEL_CONFIG[state.level].weight),
     raw_score |-> scored.total,
     level |-> state.level,
     weight |-> LEVEL_CONFIG[state.level].weight,
     destination_reached |-> scored.dest > 0,
     distance_to_target |-> scored.dist,
     avg_deviation |-> scored.dev,
     final_map_b64 |-> final_map_b64]

env_result(session_id, map_ok) ==
    /\ call' = [op |-> "result", sid |-> session_id,
                walked_path |-> IF session_id \in DOMAIN sessions
                                THEN sessions[session_id].walked_path ELSE <<>>]
    /\ IF session_id \notin DOMAIN sessions
       THEN /\ ret' = [score |-> 0, error |-> "No state"]
            /\ UNCHANGED <<sessions, hist>>
       ELSE IF final_map_raises(sessions[session_id].walked_path)
       THEN /\ ret' = [score |-> 0, error |-> "Internal error in result()"]
            /\ UNCHANGED <<sessions, hist>>
       ELSE LET state == sessions[session_id]
            IN  /\ sessions' = Pop(sessions, session_id)
                /\ hist' = [hist EXCEPT ![session_id] = [NewHist EXCEPT !.read = TRUE]]
                /\ ret' = result_dict(state,
                                calculate_final_score(state.walked_path, state.route_poly),
                                IF map_ok THEN <<"final_map", state.walked_path>> ELSE <<>>)

(***************************************************************************)
(* The three calls made by a caller other than the run loop.               *)
(***************************************************************************)
start(session_id, task_config, map_ok, view_ok) ==
    /\ env_start(session_id, task_config, map_ok, view_ok)
    /\ UNCHANGED <<othervars, assessment>>

act(session_id, action, view_ok) ==
    /\ env_act(session_id, action, view_ok)
    /\ UNCHANGED <<othervars, assessment>>

result(session_id, map_ok) ==
    /\ env_result(session_id, map_ok)
    /\ UNCHANGED <<othervars, assessment>>

(***************************************************************************)
(* The environment driven through its public surface: any caller may call  *)
(* start, act and result in any order on any session id.                   *)
(***************************************************************************)
\* no generate_route call of its own in progress, no pure-function run
NoRuns == runs = <<>> /\ global_rng = 0 /\ assessment = <<>>

NoArgs == arg = <<>> /\ returned = <<>>

Init ==
    /\ sessions = <<>>
    /\ hist = <<>>
    /\ call = [op |-> "init"]
    /\ ret = <<>>
    /\ sel = ConfigNone
    /\ resolved = 0
    /\ world \in Worlds
    /\ NoRuns
    /\ NoArgs

\* task_config values callers pass to start: task index i plays level i + 1
TaskIndex(i) == ConfigDict(Absent, IntField(i), Absent)

\* act calls made on the sessions now registered
RECURSIVE SumActs(_)
SumActs(ids) ==
    IF ids = {} THEN 0
    ELSE LET x == CHOOSE y \in ids : TRUE IN hist[x].acts + SumActs(ids \ {x})

TotalActs == SumActs(DOMAIN hist)

(***************************************************************************)
(* Spec: the session registry, two session ids.                            *)
(***************************************************************************)
Actions == { Forward, Quit, Left, Junk }

StartConfigs == { ConfigNone, TaskIndex(5) }

Start ==
    \E sid \in SessionIds, cfg \in StartConfigs : start(sid, cfg, TRUE, TRUE)

Act ==
    \E sid \in SessionIds, a \in Actions :
        /\ sid \in DOMAIN sessions => TotalActs < MaxActs
        /\ act(sid, a, TRUE)

Result == \E sid \in SessionIds : result(sid, TRUE)

Next == Start \/ Act \/ Result

Spec == Init /\ [][Next]_vars

(***************************************************************************)
(* SpecNav: one session at any level, the full command language.           *)
(***************************************************************************)
NavActions ==
    { Forward, ForwardLoud, Quit, Left, Right45, LeftBad, LeftNaN, Empty, Junk }

NavStart ==
    /\ "s1" \notin DOMAIN sessions
    /\ \E i \in 0..9 : start("s1", TaskIndex(i), TRUE, TRUE)

NavAct ==
    \E a \in NavActions :
        /\ "s1" \in DOMAIN sessions => hist["s1"].acts < MaxNavActs
        /\ act("s1", a, TRUE)

NavResult == result("s1", TRUE)

NextNav == NavStart \/ NavAct \/ NavResult

SpecNav == Init /\ [][NextNav]_vars

(***************************************************************************)
(* SpecTurn: one session of a short level, every command of RawActions.    *)
(***************************************************************************)
TurnStart ==
    /\ "s1" \notin DOMAIN sessions
    /\ \E i \in 0..1 : start("s1", TaskIndex(i), TRUE, TRUE)

TurnAct ==
    \E a \in RawActions :
        /\ "s1" \in DOMAIN sessions => hist["s1"].acts < MaxTurnActs
        /\ act("s1", a, TRUE)

NextTurn == TurnStart \/ TurnAct

SpecTurn == Init /\ [][NextTurn]_vars

(***************************************************************************)
(* SpecLimit: one level-1 session played up to and past its step limit.    *)
(***************************************************************************)
LimitActions == { Forward, Quit, Left, LeftBad, Empty, Junk }

LimitStart ==
    /\ "s1" \notin DOMAIN sessions
    /\ start("s1", ConfigNone, TRUE, TRUE)

LimitAct ==
    \E a \in LimitActions :
        /\ "s1" \in DOMAIN sessions
        /\ sessions["s1"].step_count < sessions["s1"].max_steps + MaxOver
        /\ base_command(a) = Forward => hist["s1"].forwards < MaxForward
        /\ act("s1", a, TRUE)

LimitResult == result("s1", TRUE)

NextLimit == LimitStart \/ LimitAct \/ LimitResult

InitLimit == Init /\ world \in {WorldOk("north"), WorldDown}

SpecLimit == InitLimit /\ [][NextLimit]_vars

(***************************************************************************)
(* SpecLevel: _determine_level applied to one selector.                    *)
(***************************************************************************)
FieldInts == (0 - 2)..MaxFieldVal

FieldValues == {Absent, BadField} \cup {IntField(n) : n \in FieldInts}

Selectors ==
    {ConfigNone, ConfigEmpty}
        \cup {ConfigDict(lv, ti, ix) : lv \in FieldValues, ti \in FieldValues, ix \in FieldValues}

InitLevel ==
    /\ sessions = <<>>
    /\ hist = <<>>
    /\ call = [op |-> "init"]
    /\ ret = <<>>
    /\ sel \in Selectors
    /\ resolved = 0
    /\ world = WorldDown
    /\ NoRuns
    /\ NoArgs

Resolve ==
    /\ resolved = 0
    /\ resolved' = determine_level(sel)
    /\ call' = [op |-> "_determine_level"]
    /\ UNCHANGED <<sessions, hist, ret, sel, genvars, purevars, assessment>>

NextLevel == Resolve

SpecLevel == InitLevel /\ [][NextLevel]_vars

(***************************************************************************)
(* SpecText: _determine_level applied to one free-text selector.  A text   *)
(* is a prefix, an integer as str() prints it (or none) and a suffix.      *)
(***************************************************************************)
TextPrefixes ==
    { <<>>,
      <<"l", "e", "v", "e", "l", " ">>,
      <<" ", "L", "E", "V", "E", "L", ":", " ">>,
      <<"l", "e", "v", "e", "l">>,
      <<"l", "e", "v", "e", "l", "s", " ">>,
      <<"l", "e", "v", "e", "l", "_">>,
      <<"T", "a", "s", "k", " ">> }

SecondInt == <<" ", "5">>

TextSuffixes == { <<>>, <<" ">>, SecondInt, <<" ", "l", "e", "v", "e", "l">> }

TextNumbers == {Absent} \cup {IntField(n) : n \in FieldInts}

TextOf(p, num, sfx) == p \o (IF num.k = "int" THEN IntStr(num.v) ELSE <<>>) \o sfx

\* the first integer of TextOf(p, num, sfx), by construction
FirstOf(num, sfx) ==
    IF num.k = "int" THEN num ELSE IF sfx = SecondInt THEN IntField(5) ELSE Absent

TextSelectors ==
    {ConfigText(TextOf(p, num, sfx), FirstOf(num, sfx)) :
        p \in TextPrefixes, num \in TextNumbers, sfx \in TextSuffixes} \ {ConfigText(<<>>, Absent)}

InitText ==
    /\ sessions = <<>>
    /\ hist = <<>>
    /\ call = [op |-> "init"]
    /\ ret = <<>>
    /\ sel \in TextSelectors
    /\ resolved = 0
    /\ world = WorldDown
    /\ NoRuns
    /\ NoArgs

ResolveText ==
    /\ resolved = 0
    /\ sel.t = "text"
    /\ resolved' = determine_level(sel)
    /\ call' = [op |-> "_determine_level"]
    /\ UNCHANGED <<sessions, hist, ret, sel, genvars, purevars, assessment>>

NextText == ResolveText

SpecText == InitText /\ [][NextText]_vars

(***************************************************************************)
(* generate_route one pass of its loop at a time.  A run is the frame of   *)
(* one call: its arguments, its local generator rng, the number of passes  *)
(* made, of directions requests issued, of passes whose walk left the      *)
(* bounds and of passes rejected, and how the call ended.                  *)
(***************************************************************************)
RunIds == {"g1", "g2"}

\* rng = random.Random(seed)
NewRun(level, seed) ==
    [level |-> level, seed |-> seed, rng |-> RngSeed(seed),
     attempt |-> 0, requests |-> 0, left_bounds |-> 0, rejected |-> 0,
     status |-> "running", route |-> NoRoute, answer |-> <<>>]

GenCall(id, level, seed) ==
    /\ id \notin DOMAIN runs
    /\ runs' = Put(runs, id, NewRun(level, seed))
    /\ call' = [op |-> "generate_route", run |-> id]
    /\ UNCHANGED <<sessions, hist, ret, sel, resolved, world, global_rng, purevars, assessment>>

\* faulty variant: the draws come from the module-level generator
generator_state_shared(id) == global_rng

\* the generator the draws of run id come from: its own rng
generator_state(id) == runs[id].rng

\* faulty variant: the loop has no bound
more_attempts_unbounded(n) == TRUE

\* for attempt in range(max_attempts)
more_attempts(n) == n < max_attempts

\* the frame f after a pass with outcome a
AfterPass(f, a) ==
    [f EXCEPT !.rng = a.rng,
              !.attempt = f.attempt + 1,
              !.requests = f.requests + (IF a.requested THEN 1 ELSE 0),
              !.left_bounds = f.left_bounds + (IF a.requested THEN 0 ELSE 1),
              !.rejected = f.rejected + (IF a.route.ok THEN 0 ELSE 1),
              !.status = IF a.route.ok THEN "returned"
                         ELSE IF more_attempts(f.attempt + 1) THEN "running"
                         ELSE "failed",
              !.route = a.route,
              !.answer = a.answer]

\* one pass of the loop of run id; after a rejected pass the loop goes on
\* while passes are left, and the call returns None when none is
GenAttempt(id) ==
    /\ id \in DOMAIN runs
    /\ runs[id].status = "running"
    /\ more_attempts(runs[id].attempt)
    /\ runs' = [runs EXCEPT ![id] =
                    AfterPass(runs[id], attempt(world, runs[id].level, generator_state(id)))]
    /\ call' = [op |-> "attempt", run |-> id]
    /\ UNCHANGED <<sessions, hist, ret, sel, resolved, world, global_rng, purevars, assessment>>

\* random.random() called by other code of the process
GlobalDraw ==
    /\ global_rng' = RngNext(global_rng)
    /\ call' = [op |-> "random"]
    /\ UNCHANGED <<sessions, hist, ret, sel, resolved, world, runs, purevars, assessment>>

InitGen ==
    /\ sessions = <<>>
    /\ hist = <<>>
    /\ call = [op |-> "init"]
    /\ ret = <<>>
    /\ sel = ConfigNone
    /\ resolved = 0
    /\ world \in Worlds \cup {WorldMerged, WorldDetour}
    /\ NoRuns
    /\ NoArgs

(***************************************************************************)
(* SpecGen: one generate_route call, any level, any collaborator.          *)
(***************************************************************************)
GenStart == \E level \in Levels : GenCall("g1", level, 1000 + level)

GenStep == GenAttempt("g1")

NextGen == GenStart \/ GenStep

SpecGen == InitGen /\ [][NextGen]_vars

(***************************************************************************)
(* SpecPair: two generate_route calls whose passes interleave with each    *)
(* other and with draws from the module-level generator.                   *)
(***************************************************************************)
PairLevels == {1, 7}

PairSeeds == {1001, 1007}

PairWorlds == {WorldOk("east"), WorldMixed}

InitPair == InitGen /\ world \in PairWorlds

PairStart ==
    \E id \in RunIds, level \in PairLevels, seed \in PairSeeds : GenCall(id, level, seed)

PairStep == \E id \in RunIds : GenAttempt(id)

NextPair == PairStart \/ PairStep \/ GlobalDraw

SpecPair == InitPair /\ [][NextPair]_vars

(***************************************************************************)
(* SpecTrunc: _truncate_polyline_to_meters applied to one polyline.        *)
(***************************************************************************)
MaxPts == 3         \* points of a drawn polyline

TruncOrigin == Pos(40750000, 0 - 73980000)

\* corners of a block of about 100 m by 100 m
TruncGrid ==
    { Shift(TruncOrigin, dlat, dlon) : dlat \in {0, 900}, dlon \in {0, 1200} }

\* targets in decimetres
TruncTargets == {700, 1500}

TruncPolylines ==
    UNION { [1..n -> TruncGrid] : n \in 2..MaxPts }

\* drawn polylines, and the overview polylines of the collaborator cut to
\* the distances of levels 1, 5 and 10
TruncArgs ==
    [pts : TruncPolylines, target : TruncTargets]
        \cup { [pts |-> OverviewPolyline(shape, TruncOrigin),
                target |-> LEVEL_CONFIG[l].dist * 10] :
                    shape \in {"north", "east", "loop"}, l \in {1, 5, 10} }

InitTrunc ==
    /\ sessions = <<>>
    /\ hist = <<>>
    /\ call = [op |-> "init"]
    /\ ret = <<>>
    /\ sel = ConfigNone
    /\ resolved = 0
    /\ world = WorldDown
    /\ NoRuns
    /\ arg \in TruncArgs
    /\ returned = <<>>

Truncate ==
    /\ returned = <<>>
    /\ returned' = truncate_polyline_to_meters(arg.pts, arg.target)
    /\ call' = [op |-> "truncate"]
    /\ UNCHANGED <<sessions, hist, ret, sel, resolved, genvars, arg, assessment>>

NextTrunc == Truncate

SpecTrunc == InitTrunc /\ [][NextTrunc]_vars

(***************************************************************************)
(* SpecRender: one session whose map and view fetches fail at will.        *)
(***************************************************************************)
MaxRenderActs == 3  \* act calls of the session in SpecRender

RenderActions == { Forward, Quit, Left }

InitRender == Init /\ world \in {WorldOk("north"), WorldDown}

RenderStart ==
    /\ "s1" \notin DOMAIN sessions
    /\ \E map_ok \in BOOLEAN, view_ok \in BOOLEAN : start("s1", ConfigNone, map_ok, view_ok)

RenderAct ==
    \E a \in RenderActions, view_ok \in BOOLEAN :
        /\ "s1" \in DOMAIN sessions
        /\ hist["s1"].acts < MaxRenderActs
        /\ act("s1", a, view_ok)

RenderResult == \E map_ok \in BOOLEAN : result("s1", map_ok)

NextRender == RenderStart \/ RenderAct \/ RenderResult

SpecRender == InitRender /\ [][NextRender]_vars

(***************************************************************************)
(* SpecScore: calculate_final_score applied to one walked path and one     *)
(* reference polyline.                                                     *)
(***************************************************************************)
\* corners of a block of about 200 m by 200 m
ScoreGrid ==
    { Shift(TruncOrigin, dlat, dlon) : dlat \in {0, 1800}, dlon \in {0, 2400} }

\* reference polylines of 2 .. MaxPts points, every segment 200 m or more
ScoreRoutes ==
    { r \in UNION { [1..n -> ScoreGrid] : n \in 2..MaxPts } :
        \A i \in 1..(Len(r) - 1) : r[i] # r[i + 1] }

\* where a walker may be after leaving p: a step away, half a block on, the
\* corners, and points 250 m and more off the block
ScoreStops(p) ==
    ScoreGrid \cup
    { Shift(p, 40, 0), Shift(p, 900, 100), Shift(p, 900, 3000), Shift(p, 1500, 5400),
      Shift(TruncOrigin, 1790, 2380), NaNPos }

ScoreWalks(r) ==
    { r, <<r[1]>> }
        \cup { <<r[1], g>> : g \in ScoreStops(r[1]) }
        \cup { <<r[1], Shift(r[1], 900, 3000), g>> : g \in ScoreStops(r[1]) \ {NaNPos} }

ScoreArgs ==
    UNION { { [walked_path |-> w, route_poly |-> r] : w \in ScoreWalks(r) } : r \in ScoreRoutes }

InitScore ==
    /\ sessions = <<>>
    /\ hist = <<>>
    /\ call = [op |-> "init"]
    /\ ret = <<>>
    /\ sel = ConfigNone
    /\ resolved = 0
    /\ world = WorldDown
    /\ NoRuns
    /\ arg \in ScoreArgs
    /\ returned = <<>>

Score ==
    /\ returned = <<>>
    /\ returned' = calculate_final_score(arg.walked_path, arg.route_poly)
    /\ call' = [op |-> "calculate_final_score"]
    /\ UNCHANGED <<sessions, hist, ret, sel, resolved, genvars, arg, assessment>>

NextScore == Score

SpecScore == InitScore /\ [][NextScore]_vars

(***************************************************************************)
(* a2a_agent.py: ASINGreenA2AAgent.run, the loop over the tasks of one     *)
(* assessment request.  The navigator answers every prompt.                *)
(***************************************************************************)
MaxTasks == 3       \* num_tasks of a request
MaxPlay == 2        \* prompts after which the navigator answers q

step_guard_limit == 2000

\* num_tasks = max(1, min(50, num_tasks))
clamp_tasks(n) == Max(1, Min(50, n))

\* session_id = f"{context_id}-{uuid}-t{task_index}"
task_session(task_index) == <<"ctx", task_index>>

\* faulty variant: no upper limit on the task count
requested_tasks_uncapped(config) ==
    LET num_tasks == IF config.num_tasks.k = "absent" THEN 10 ELSE config.num_tasks.v
    IN  Max(1, num_tasks)

\* num_tasks = int(config.get("num_tasks", 10)), then the clamp
requested_tasks(config) ==
    LET num_tasks == IF config.num_tasks.k = "absent" THEN 10 ELSE config.num_tasks.v
    IN  clamp_tasks(num_tasks)

\* the frame of one run; config is kept as the request was made
NewAssessment(config) ==
    [config |-> config, num_tasks |-> requested_tasks(config), task_index |-> 0,
     phase |-> "start", step_guard |-> 0, artifacts |-> <<>>]

\* the config of a request: num_tasks absent or an integer
RunConfigs ==
    {[num_tasks |-> f] : f \in {Absent} \cup {IntField(n) : n \in (0 - 1)..MaxTasks \cup {50, 51}}}

\* results.append(res); add_artifact(...); then the next task_index
emit(a, res) ==
    [a EXCEPT !.artifacts = Append(a.artifacts, res),
              !.task_index = a.task_index + 1,
              !.phase = "start",
              !.step_guard = 0]

\* if state.get("done") and state.get("error")
start_failed(state) == Has(state, "error") /\ state.done

\* faulty variant: a failed start ends the run
after_start_aborting(a, state) ==
    IF start_failed(state) THEN [a EXCEPT !.phase = "completed"]
    ELSE [a EXCEPT !.phase = "play", !.step_guard = 0]

\* a failed start is recorded with score 0 and the loop continues with the
\* next task; otherwise the task is played
after_start(a, state) ==
    IF start_failed(state)
    THEN emit(a, [score |-> 0, error |-> state.error, task_index |-> a.task_index])
    ELSE [a EXCEPT !.phase = "play", !.step_guard = 0]

RunRequest ==
    /\ assessment = <<>>
    /\ \E config \in RunConfigs : assessment' = NewAssessment(config)
    /\ call' = [op |-> "run"]
    /\ UNCHANGED <<sessions, hist, ret, othervars>>

\* the while loop ends: state["done"], or step_guard > 2000 after the increment
play_over(a, state) == state.done \/ a.step_guard + 1 > step_guard_limit

\* state = self.env.start(session_id, task_config={"task_index": task_index})
RunStart ==
    /\ assessment # <<>>
    /\ assessment.phase = "start"
    /\ assessment.task_index < assessment.num_tasks
    /\ env_start(task_session(assessment.task_index), TaskIndex(assessment.task_index),
                 TRUE, TRUE)
    /\ assessment' = after_start(assessment, ret')
    /\ UNCHANGED othervars

\* one pass of the while loop: the navigator is asked and the text it
\* answers with is played.  The navigator gives up after MaxPlay answers,
\* and at once in a run of more than MaxTasks tasks.
RunActWith(answers) ==
    /\ assessment # <<>>
    /\ assessment.phase = "play"
    /\ ~play_over(assessment, ret)
    /\ \E a \in answers :
        /\ assessment.step_guard >= MaxPlay \/ assessment.num_tasks > MaxTasks => a = Quit
        /\ env_act(task_session(assessment.task_index), a, TRUE)
    /\ assessment' = [assessment EXCEPT !.step_guard = assessment.step_guard + 1]
    /\ UNCHANGED othervars

\* a navigator that answers with well-formed commands
RunAct == RunActWith({Forward, Left, Quit})

\* a navigator that also answers "l nan": any text it sends is passed on
RunActAny == RunActWith({Forward, LeftNaN, Quit})

\* after the while loop: res = self.env.result(session_id); res["task_index"] =
\* task_index
RunResult ==
    /\ assessment # <<>>
    /\ assessment.phase = "play"
    /\ play_over(assessment, ret)
    /\ env_result(task_session(assessment.task_index), TRUE)
    /\ assessment' = emit(assessment, [task_index |-> assessment.task_index] @@ ret')
    /\ UNCHANGED othervars

\* the for loop is over: update_status(TaskState.completed, ...)
RunComplete ==
    /\ assessment # <<>>
    /\ assessment.phase = "start"
    /\ assessment.task_index = assessment.num_tasks
    /\ assessment' = [assessment EXCEPT !.phase = "completed"]
    /\ call' = [op |-> "completed"]
    /\ UNCHANGED <<sessions, hist, ret, othervars>>

NextRun == RunRequest \/ RunStart \/ RunAct \/ RunResult \/ RunComplete

SpecRun == Init /\ [][NextRun]_vars

NextRunAny == RunRequest \/ RunStart \/ RunActAny \/ RunResult \/ RunComplete

SpecRunAny == Init /\ [][NextRunAny]_vars

(***************************************************************************)
(* Construction.  asin_env.py ASINEnv.__init__ and agent.py                *)
(* ASINGreenAgent.__init__ both read GOOGLE_MAPS_API_KEY; arg holds the    *)
(* process environment and the class constructed, returned the object.    *)
(***************************************************************************)
\* values of GOOGLE_MAPS_API_KEY; unset reads as ""
EnvKeys == { <<>>, <<" ">>, <<"k">>, <<" ", "k", " ">> }

Classes == { "ASINEnv", "ASINGreenAgent" }

MissingKeyError == "Missing GOOGLE_MAPS_API_KEY. Please provide it via environment variable."

\* env_key = os.getenv(...).strip(); if not env_key: raise ValueError(...)
ASINEnv_init(key) ==
    LET env_key == Strip(key)
    IN  IF env_key = <<>>
        THEN [raised |-> "ValueError: Missing GOOGLE_MAPS_API_KEY"]
        ELSE [cls |-> "ASINEnv", api_key |-> env_key, logic |-> TRUE]

\* self.api_key = env_key or None;
\* self.logic = NavigationLogic(self.api_key) if self.api_key else None;
\* self.task_counter = 0
ASINGreenAgent_init(key) ==
    LET env_key == Strip(key)
    IN  [cls |-> "ASINGreenAgent", api_key |-> env_key, logic |-> env_key # <<>>,
         task_counter |-> 0]

\* collaborators that answer every request with a route: with them, and a
\* task_index in the task_config, ASINGreenAgent.start with logic present
\* runs as ASINEnv.start does
BootWorlds == {WorldOk("north"), WorldOk("east"), WorldOk("loop")}

InitBoot ==
    /\ sessions = <<>>
    /\ hist = <<>>
    /\ call = [op |-> "init"]
    /\ ret = <<>>
    /\ sel = ConfigNone
    /\ resolved = 0
    /\ world \in BootWorlds
    /\ NoRuns
    /\ arg \in [GOOGLE_MAPS_API_KEY : EnvKeys, cls : Classes]
    /\ returned = <<>>

Construct ==
    /\ returned = <<>>
    /\ returned' = IF arg.cls = "ASINEnv" THEN ASINEnv_init(arg.GOOGLE_MAPS_API_KEY)
                   ELSE ASINGreenAgent_init(arg.GOOGLE_MAPS_API_KEY)
    /\ call' = [op |-> "construct"]
    /\ UNCHANGED <<sessions, hist, ret, sel, resolved, genvars, arg, assessment>>

\* agent.py start: if not self.logic: return {"error": ..., "done": True}
credential_error(session_id) ==
    /\ ret' = [error |-> MissingKeyError, done |-> TRUE]
    /\ call' = [op |-> "start", sid |-> session_id]
    /\ UNCHANGED <<sessions, hist>>

\* a start call on the object constructed; none can be made when the
\* constructor raised.  ASINEnv.start has no branch on the credential.
BootStart ==
    /\ returned # <<>>
    /\ ~Has(returned, "raised")
    /\ \E session_id \in SessionIds, i \in 0..1 :
        IF returned.cls = "ASINGreenAgent" /\ ~returned.logic
        THEN credential_error(session_id)
        ELSE env_start(session_id, TaskIndex(i), TRUE, TRUE)
    /\ UNCHANGED <<othervars, assessment>>

NextBoot == Construct \/ BootStart

SpecBoot == InitBoot /\ [][NextBoot]_vars

(***************************************************************************)
(* agent.py ASINGreenAgent._determine_level: the level of a start call of  *)
(* the legacy orchestrator.  A selector that yields no level in 1..10      *)
(* falls through to the task counter of the instance.                      *)
(***************************************************************************)
Miss == [hit |-> FALSE, lvl |-> 0]

\* the scalar/string branch of agent.py: no default, a miss falls through
agent_text_level(text) ==
    LET s_lower == Lower(Strip(text))
        m == search_integer(s_lower)
    IN  IF search_level_word(s_lower) /\ m.found /\ 1 <= m.val /\ m.val <= 10
        THEN [hit |-> TRUE, lvl |-> m.val]
        ELSE IF m.found THEN index_reading(m.val)
        ELSE Miss

\* the body of "if task_config is not None and task_config != ''": the
\* level it returns, or a miss when control leaves the block
agent_explicit_level(task_config) ==
    IF task_config.t \in {"none", "empty"} THEN Miss
    ELSE IF task_config.t = "text" THEN agent_text_level(task_config.text)
    ELSE IF level_key(task_config.level).hit THEN level_key(task_config.level)
    ELSE IF index_key(task_config.task_index).hit THEN index_key(task_config.task_index)
    ELSE IF index_key(task_config.index).hit THEN index_key(task_config.index)
    ELSE Miss

\* faulty variant: the counter advanced by every call
ASINGreenAgent_determine_level_counting_all(task_counter, task_config) ==
    LET e == agent_explicit_level(task_config)
    IN  IF e.hit THEN [lvl |-> e.lvl, task_counter |-> task_counter + 1]
        ELSE [lvl |-> (task_counter % 10) + 1, task_counter |-> task_counter + 1]

\* lvl = (self.task_counter % 10) + 1; self.task_counter += 1; return lvl
ASINGreenAgent_determine_level(task_counter, task_config) ==
    LET e == agent_explicit_level(task_config)
    IN  IF e.hit THEN [lvl |-> e.lvl, task_counter |-> task_counter]
        ELSE [lvl |-> (task_counter % 10) + 1, task_counter |-> task_counter + 1]

(***************************************************************************)
(* SpecCounter: the level resolution of successive start calls on one      *)
(* ASINGreenAgent that holds a credential.  call counts the calls made so  *)
(* far without a selector and with one that names no level, and records    *)
(* whether one named a level.                                              *)
(***************************************************************************)
\* no level selector: None, "", or a dict with none of the three keys
Unselected(task_config) ==
    \/ task_config.t \in {"none", "empty"}
    \/ /\ task_config.t = "dict"
       /\ task_config.level = Absent
       /\ task_config.task_index = Absent
       /\ task_config.index = Absent

\* the level a selector names, 0 when it names none: a level key in 1..10,
\* else an index key in 0..9, else the integer of a text in 0..10
Named(task_config) ==
    IF task_config.t = "text"
    THEN IF task_config.first.k = "int" /\ task_config.first.v \in 1..10
              /\ search_level_word(Lower(task_config.text))
         THEN task_config.first.v
         ELSE IF task_config.first.k = "int" /\ task_config.first.v \in 0..9
         THEN task_config.first.v + 1
         ELSE IF task_config.first.k = "int" /\ task_config.first.v = 10 THEN 10
         ELSE 0
    ELSE IF task_config.t # "dict" THEN 0
    ELSE IF task_config.level.k = "int" /\ task_config.level.v \in 1..10
         THEN task_config.level.v
    ELSE IF task_config.task_index.k = "int" /\ task_config.task_index.v \in 0..9
         THEN task_config.task_index.v + 1
    ELSE IF task_config.index.k = "int" /\ task_config.index.v \in 0..9
         THEN task_config.index.v + 1
    ELSE 0

\* a dict padded to the fields of a text selector, so that both kinds are
\* records of one shape
DictSelector(lv, ti, ix) == ConfigDict(lv, ti, ix) @@ [text |-> <<>>, first |-> Absent]

CounterSelectors ==
    {ConfigNone @@ [text |-> <<>>, first |-> Absent],
     ConfigEmpty @@ [text |-> <<>>, first |-> Absent]}
        \cup {DictSelector(lv, ti, Absent) :
                lv \in {Absent, BadField, IntField(4), IntField(11)},
                ti \in {Absent, IntField(9), IntField(10)}}
        \cup {ConfigText(<<"g", "o">>, Absent),
              ConfigText(<<"7">>, IntField(7)),
              ConfigText(<<"l", "e", "v", "e", "l", " ", "1", "2">>, IntField(12))}

InitCounter ==
    /\ sessions = <<>>
    /\ hist = <<>>
    /\ call = [op |-> "init", unselected |-> 0, unresolved |-> 0, named |-> FALSE]
    /\ ret = <<>>
    /\ sel = ConfigNone
    /\ resolved = 0
    /\ world = WorldDown
    /\ NoRuns
    /\ arg \in [GOOGLE_MAPS_API_KEY : {<<"k">>, <<" ", "k", " ">>}, cls : {"ASINGreenAgent"}]
    /\ returned = ASINGreenAgent_init(arg.GOOGLE_MAPS_API_KEY)

\* level = self._determine_level(task_config), the first step of start
\* once self.logic is known to be present
CounterStart ==
    /\ returned.logic
    /\ returned.task_counter < MaxCounter
    /\ \E task_config \in CounterSelectors :
        LET r == ASINGreenAgent_determine_level(returned.task_counter, task_config)
        IN  /\ resolved' = r.lvl
            /\ returned' = [returned EXCEPT !.task_counter = r.task_counter]
            /\ sel' = task_config
            /\ call' = [op |-> "_determine_level",
                        unselected |-> call.unselected
                            + (IF Unselected(task_config) THEN 1 ELSE 0),
                        unresolved |-> call.unresolved
                            + (IF ~Unselected(task_config) /\ Named(task_config) = 0
                               THEN 1 ELSE 0),
                        named |-> call.named \/ Named(task_config) # 0]
    /\ UNCHANGED <<sessions, hist, ret, genvars, arg, assessment>>

NextCounter == CounterStart

SpecCounter == InitCounter /\ [][NextCounter]_vars

(***************************************************************************)
(* Properties                                                              *)
(***************************************************************************)
Registered == DOMAIN sessions

\* the last call was an act on sid
ActedOn(sid) == call.op = "act" /\ call.sid = sid

\* C1: the act call that brings step_count to max_steps returns done=true
\* with reason "Max steps exceeded", whatever the command was.
C1_StepCeiling ==
    \A sid \in Registered :
        (ActedOn(sid) /\ sessions[sid].step_count = sessions[sid].max_steps)
            => /\ ret.done = TRUE
               /\ Has(ret.info, "reason")
               /\ ret.info.reason = "Max steps exceeded"

\* a malformed turn is the call that reaches the limit
C1_Witness ==
    /\ "s1" \in Registered
    /\ ActedOn("s1")
    /\ call.action = LeftBad
    /\ sessions["s1"].step_count = sessions["s1"].max_steps
    /\ ret.done = TRUE

\* C2: once an act on a session has returned done=true, a later act on it
\* changes neither position, heading, walked_path nor step_count and
\* returns done=true.
C2_TerminatedIsFinal ==
    [][\A sid \in Registered :
        (hist[sid].finished /\ call'.op = "act" /\ call'.sid = sid)
            => /\ sessions'[sid].current_pos = sessions[sid].current_pos
               /\ sessions'[sid].current_heading = sessions[sid].current_heading
               /\ sessions'[sid].walked_path = sessions[sid].walked_path
               /\ sessions'[sid].step_count = sessions[sid].step_count
               /\ ret'.done = TRUE]_vars

\* C3: step_count never exceeds max_steps in a registered session.
C3_StepCountBounded ==
    \A sid \in Registered : sessions[sid].step_count <= sessions[sid].max_steps

\* C4: walked_path holds one point more than the number of act calls whose
\* token was f since start.
C4_PathLength ==
    \A sid \in Registered : Len(sessions[sid].walked_path) = 1 + hist[sid].forwards

\* two forward moves, then q: three points
C4_Witness ==
    /\ "s1" \in Registered
    /\ ActedOn("s1")
    /\ call.action = Quit
    /\ hist["s1"].forwards = 2
    /\ Len(sessions["s1"].walked_path) = 3

\* C5: step_count is the number of act calls made on the session since its
\* start, and 0 right after start.
C5_StepCountCountsActs ==
    /\ \A sid \in Registered : sessions[sid].step_count = hist[sid].acts
    /\ (call.op = "start" /\ call.generated) => sessions[call.sid].step_count = 0

\* three calls, the last one the empty string
C5_Witness ==
    /\ "s1" \in Registered
    /\ ActedOn("s1")
    /\ call.action = Empty
    /\ hist["s1"].acts = 3
    /\ sessions["s1"].step_count = 3

\* C6: act on an id that is not registered returns done=true with an error
\* and leaves the registry as it was.
C6_UnknownSessionAct ==
    [][(call'.op = "act" /\ call'.sid \notin Registered)
        => /\ Has(ret', "error")
           /\ ret'.done = TRUE
           /\ sessions' = sessions]_vars

\* act on an unknown id while another session is registered
C6_Witness ==
    /\ ActedOn("s2")
    /\ "s2" \notin Registered
    /\ "s1" \in Registered
    /\ Has(ret, "error")
    /\ ret.done = TRUE

\* C7: a successful result removes the session; result on an id that is not
\* registered (never started, or already read) returns score 0 with an error
\* and leaves the registry as it was; act on an id whose result was read
\* returns the unknown-session failure.
C7_ResultReadOnce ==
    /\ [](\A sid \in DOMAIN hist :
            hist[sid].read
                => /\ sid \notin Registered
                   /\ ActedOn(sid) => ret = [error |-> "Session not found", done |-> TRUE])
    /\ [][call'.op = "result"
            => IF call'.sid \in Registered
               THEN Has(ret', "error") \/ call'.sid \notin DOMAIN sessions'
               ELSE /\ Has(ret', "error")
                    /\ ret'.score = 0
                    /\ sessions' = sessions]_vars

\* a second result on an id whose result was read
C7_Witness ==
    /\ call.op = "result"
    /\ call.sid \in DOMAIN hist
    /\ hist[call.sid].read
    /\ Has(ret, "error")
    /\ ret.score = 0

\* C8: when the route generator fails, start returns done=true with an error
\* and the registry is left as it was.
C8_FailedStart ==
    [][(call'.op = "start" /\ ~call'.generated)
        => /\ Has(ret', "error")
           /\ ret'.done = TRUE
           /\ sessions' = sessions]_vars

\* a failed start on a fresh id while another session is registered
C8_Witness ==
    /\ call.op = "start"
    /\ ~call.generated
    /\ call.sid \notin Registered
    /\ Registered # {}
    /\ ret.done = TRUE

\* max_steps by level, as the level table gives it
StepsByLevel == <<120, 120, 120, 162, 201, 240, 300, 360, 402, 501>>

\* C9: a session started at level L has max_steps = StepsByLevel[L], and
\* max_steps does not change while the session is registered.
C9_MaxSteps ==
    /\ [](\A sid \in Registered :
            sessions[sid].max_steps = StepsByLevel[sessions[sid].level])
    /\ [][\A sid \in Registered \cap DOMAIN sessions' :
            call'.op # "start" => sessions'[sid].max_steps = sessions[sid].max_steps]_vars

\* a level-10 session that has been acted on
C9_Witness ==
    /\ "s1" \in Registered
    /\ sessions["s1"].level = 10
    /\ sessions["s1"].max_steps = 501
    /\ sessions["s1"].step_count > 0

InRange(n) == 1 <= n /\ n <= 10

\* C10: for a dict selector an explicit level in 1..10 wins; otherwise a
\* task index i (task_index before index) with i + 1 in 1..10 gives i + 1;
\* otherwise, and with no selector, the level is 1.
C10_DictLevel ==
    resolved # 0 =>
        /\ InRange(resolved)
        /\ IF sel.t # "dict" THEN resolved = 1
           ELSE IF sel.level.k = "int" /\ InRange(sel.level.v) THEN resolved = sel.level.v
           ELSE IF sel.task_index.k = "int" /\ InRange(sel.task_index.v + 1)
                THEN resolved = sel.task_index.v + 1
           ELSE IF sel.index.k = "int" /\ InRange(sel.index.v + 1)
                THEN resolved = sel.index.v + 1
           ELSE resolved = 1

\* an explicit level beats a task index in range
C10_Witness ==
    /\ sel.t = "dict"
    /\ sel.level = IntField(7)
    /\ sel.task_index = IntField(3)
    /\ resolved = 7

\* the word "level" appears in the selector text
WordLevel == search_level_word(Lower(Strip(sel.text)))

\* C11 (as stated): for a free-text selector whose first integer is n, the
\* level is n when the word "level" appears and n is in 1..10; otherwise
\* n + 1 when n + 1 is in 1..10; in every other case 1.
C11_TextLevel ==
    (resolved # 0 /\ sel.t = "text") =>
        IF WordLevel /\ sel.first.k = "int" /\ InRange(sel.first.v)
        THEN resolved = sel.first.v
        ELSE IF sel.first.k = "int" /\ InRange(sel.first.v + 1)
        THEN resolved = sel.first.v + 1
        ELSE resolved = 1

\* C11 (amended): as above, and a first integer of 10 that is not read as
\* a level by the word "level" is still taken as level 10.
C11_TextLevelAmended ==
    (resolved # 0 /\ sel.t = "text") =>
        /\ InRange(resolved)
        /\ IF WordLevel /\ sel.first.k = "int" /\ InRange(sel.first.v)
           THEN resolved = sel.first.v
           ELSE IF sel.first.k = "int" /\ InRange(sel.first.v + 1)
           THEN resolved = sel.first.v + 1
           ELSE IF sel.first.k = "int" /\ sel.first.v = 10
           THEN resolved = 10
           ELSE resolved = 1

\* "Task 10": no word "level", the integer 10 is past the last index
C11_Witness ==
    /\ sel.t = "text"
    /\ sel.text = <<"T", "a", "s", "k", " ", "1", "0">>
    /\ ~WordLevel
    /\ resolved = 10

\* the run has ended
Ended(id) == id \in DOMAIN runs /\ runs[id].status # "running"

\* C12: two generate_route calls with the same level and seed, answered by
\* the same collaborator, end the same way and return the same route,
\* whatever passes of other calls and draws from the module-level generator
\* came between their passes.
C12_Determinism ==
    \A a \in RunIds, b \in RunIds :
        (Ended(a) /\ Ended(b)
            /\ runs[a].level = runs[b].level /\ runs[a].seed = runs[b].seed)
            => /\ runs[a].status = runs[b].status
               /\ runs[a].route = runs[b].route

\* both calls returned a route on their second pass, draws of the
\* module-level generator in between
C12_Witness ==
    /\ Ended("g1") /\ Ended("g2")
    /\ runs["g1"].level = runs["g2"].level
    /\ runs["g1"].seed = runs["g2"].seed
    /\ runs["g1"].status = "returned"
    /\ runs["g1"].attempt > 1
    /\ global_rng # 0
    /\ runs["g1"].route = runs["g2"].route

\* C14: a generate_route call makes at most max_attempts passes; a pass
\* issues one directions request, and none when its walk left the bounds;
\* the call returns the route of the first pass that is not rejected, and
\* fails exactly when max_attempts passes were rejected (so a call that
\* has ended holds what the loop run in one piece gives).
C14_BoundedAttempts ==
    \A id \in DOMAIN runs :
        LET f == runs[id]
        IN  /\ f.attempt <= max_attempts
            /\ f.requests + f.left_bounds = f.attempt
            /\ f.status = "returned" => (f.route.ok /\ f.rejected = f.attempt - 1)
            /\ f.status = "running" => f.rejected = f.attempt
            /\ f.status = "failed" <=> f.rejected = max_attempts
            /\ f.status = "failed" => ~f.route.ok
            /\ f.status # "running" => f.route = generate_route(world, f.level, f.seed)

\* a call that failed after max_attempts passes, some with a request and
\* some whose walk left the bounds
C14_Witness ==
    /\ "g1" \in DOMAIN runs
    /\ runs["g1"].status = "failed"
    /\ runs["g1"].attempt = max_attempts
    /\ runs["g1"].requests > 0
    /\ runs["g1"].left_bounds > 0

\* C13: every start resolves a level L in 1..10 and generates with seed
\* 1000 + L; two registered sessions of the same level hold the same route,
\* waypoints, start position, step limit and distances, whatever their ids
\* and whatever was started or played before, and the same heading and
\* position as long as neither has acted.
C13_Fairness ==
    /\ call.op = "start" => (call.level \in Levels /\ call.seed = 1000 + call.level)
    /\ \A a \in DOMAIN sessions, b \in DOMAIN sessions :
          sessions[a].level = sessions[b].level
            => /\ sessions[a].route_poly = sessions[b].route_poly
               /\ sessions[a].generated_waypoints = sessions[b].generated_waypoints
               /\ sessions[a].walked_path[1] = sessions[b].walked_path[1]
               /\ sessions[a].max_steps = sessions[b].max_steps
               /\ sessions[a].route_dist_m = sessions[b].route_dist_m
               /\ (sessions[a].step_count = 0 /\ sessions[b].step_count = 0)
                    => /\ sessions[a].current_pos = sessions[b].current_pos
                       /\ sessions[a].current_heading = sessions[b].current_heading

\* s2 started at the level of s1 after s1 had walked a step
C13_Witness ==
    /\ call.op = "start" /\ call.sid = "s2"
    /\ "s1" \in DOMAIN sessions /\ "s2" \in DOMAIN sessions
    /\ sessions["s1"].level = sessions["s2"].level
    /\ Len(sessions["s1"].walked_path) > 1
    /\ sessions["s2"].step_count = 0
    /\ sessions["s2"].current_pos = sessions["s1"].walked_path[1]

\* pts without the points that repeat their predecessor
RECURSIVE Distinct(_, _)
Distinct(pts, acc) ==
    IF pts = <<>> THEN acc
    ELSE IF acc # <<>> /\ acc[Len(acc)] = pts[1] THEN Distinct(Tail(pts), acc)
    ELSE Distinct(Tail(pts), Append(acc, pts[1]))

\* the truncation ran on a polyline at least as long as its target
Truncated ==
    /\ returned # <<>>
    /\ arg.target > 0
    /\ polyline_length_meters(arg.pts) >= arg.target

\* C15: the truncation of a polyline at least as long as the target starts
\* at its first point, goes through its points in order (repeated points
\* once) up to the segment on which the length reaches the target, ends at
\* the point of that segment interpolated linearly in latitude and
\* longitude, and is within 1 m (10 dm) of the target in length.
C15_TruncationExact ==
    Truncated =>
        LET out == returned.poly
            n == Len(out)
            orig == Distinct(arg.pts, <<>>)
            before == polyline_length_meters(SubSeq(orig, 1, n - 1))
            p1 == orig[n - 1]
            p2 == orig[n]
            seg == HavDm(p1[1].v, p1[2].v, p2[1].v, p2[2].v)
        IN  /\ n >= 2 /\ n <= Len(orig)
            /\ out[1] = arg.pts[1]
            /\ \A i \in 1..(n - 1) : out[i] = orig[i]
            /\ before < arg.target /\ arg.target <= before + seg
            /\ out[n] = Pos(p1[1].v + DivT((p2[1].v - p1[1].v) * (arg.target - before), seg),
                            p1[2].v + DivT((p2[2].v - p1[2].v) * (arg.target - before), seg))
            /\ Abs(returned.dist - arg.target) <= 10

\* a polyline with a repeated point cut inside its last segment
C15_Witness ==
    /\ Truncated
    /\ Len(arg.pts) = 3
    /\ arg.pts[1] = arg.pts[2]
    /\ Len(returned.poly) = 2
    /\ returned.poly[2] \notin {arg.pts[1], arg.pts[3]}

\* C16: an act whose command token is q on a registered session returns
\* done=true and leaves current_pos, current_heading and walked_path as
\* they were; its reason is "Agent requested finish", unless the step this
\* call counts reaches max_steps, and then it is "Max steps exceeded".
C16_QuitAct ==
    [][(/\ call'.op = "act"
        /\ call'.sid \in DOMAIN sessions
        /\ base_command(call'.action) = <<"q">>)
        => LET before == sessions[call'.sid]
               after == sessions'[call'.sid]
           IN  /\ ret'.done = TRUE
               /\ after.current_pos = before.current_pos
               /\ after.current_heading = before.current_heading
               /\ after.walked_path = before.walked_path
               /\ after.step_count = before.step_count + 1
               /\ ret'.info.reason =
                    IF after.step_count >= after.max_steps
                    THEN "Max steps exceeded" ELSE "Agent requested finish"]_vars

\* the q that is the last step the limit allows
C16_Witness ==
    /\ call.op = "act" /\ call.action = Quit
    /\ "s1" \in DOMAIN sessions
    /\ sessions["s1"].step_count = sessions["s1"].max_steps
    /\ ret.done = TRUE
    /\ ret.info.reason = "Max steps exceeded"
    /\ hist["s1"].forwards > 0

\* position, heading, path and step count of a session state
Walk(state) ==
    [current_pos |-> state.current_pos, current_heading |-> state.current_heading,
     walked_path |-> state.walked_path, step_count |-> state.step_count]

\* two images, none empty, and no error
TwoImages(r) ==
    /\ ~Has(r, "error")
    /\ Len(r.images) = 2
    /\ r.images[1] # <<>> /\ r.images[2] # <<>>

\* C17: whatever fetches fail, a start with a route and an act on a
\* registered session return two non-empty images and no error; done is
\* FALSE after start and, after act, TRUE exactly for q or a step count at
\* the limit; a failed view fetch in act returns the last view fetched with
\* success in the session, the placeholder if there was none; position,
\* heading, path and step count after the act are those of the same act
\* with a successful fetch.
C17_RenderFailure ==
    [][/\ (call'.op = "start" /\ call'.generated)
            => /\ TwoImages(ret')
               /\ ret'.done = FALSE
               /\ Walk(sessions'[call'.sid]).step_count = 0
       /\ (call'.op = "act" /\ call'.sid \in DOMAIN sessions)
            => LET before == sessions[call'.sid]
                   after == sessions'[call'.sid]
                   moved == count_step(apply_command(before, call'.action))
               IN  /\ TwoImages(ret')
                   /\ ret'.done = (base_command(call'.action) = <<"q">>
                                        \/ after.step_count >= after.max_steps)
                   /\ ~call'.view_ok =>
                        ret'.images[2] = IF hist[call'.sid].rendered # <<>>
                                         THEN hist[call'.sid].rendered
                                         ELSE ViewPlaceholder
                   /\ call'.view_ok =>
                        ret'.images[2] = ViewImage(after.current_pos, after.current_heading)
                   /\ Walk(after) = Walk(observe(moved, TRUE))]_vars

\* a failed fetch after a step forward: the view returned is the one taken
\* before the step
C17_Witness ==
    /\ call.op = "act" /\ call.view_ok = FALSE /\ call.action = Forward
    /\ "s1" \in DOMAIN sessions
    /\ ret.images[2] # ViewPlaceholder
    /\ ret.images[2] # ViewImage(sessions["s1"].current_pos, sessions["s1"].current_heading)
    /\ ret.images[2] = hist["s1"].rendered
    /\ hist["s1"].acts >= 2

\* C18 (as stated): a result read from a session that never moved (its
\* walked path is the start point alone) carries raw_score 0.
C18_NoMoveScoresZero ==
    (call.op = "result" /\ Has(ret, "raw_score") /\ Len(call.walked_path) = 1)
        => ret.raw_score = 0

\* C19: the total is the destination bonus plus base similarity times
\* progress ratio, the bonus 0 or 30, the base similarity in [0, 70], the
\* ratio in [0, 1], so the total in [0, 100] (thousandths of a point, ratio
\* in ten-thousandths).
C19_ScoreRange ==
    returned # <<>> =>
        /\ returned.dest \in {0, 30}
        /\ returned.base >= 0 /\ returned.base <= 70000
        /\ returned.progress >= 0 /\ returned.progress <= 10000
        /\ returned.sim = (returned.base * returned.progress) \div 10000
        /\ returned.total = returned.dest * 1000 + returned.sim
        /\ returned.total >= 0 /\ returned.total <= 100000

\* a walk that strayed more than 100 m on average and ended beside the
\* middle of the route
C19_Witness ==
    /\ returned # <<>>
    /\ returned.dev.k = "fin" /\ returned.dev.v > 1000
    /\ returned.base = 0
    /\ returned.progress > 0 /\ returned.progress < 10000
    /\ returned.dest = 0

\* C20: a walked path that is the reference polyline itself scores the
\* destination bonus 30, average deviation 0, progress ratio 1 and total 100.
C20_IdenticalPath ==
    (returned # <<>> /\ arg.walked_path = arg.route_poly)
        => /\ returned.dest = 30
           /\ returned.dev = Fin(0)
           /\ returned.progress = 10000
           /\ returned.total = 100000

\* a route of three points that turns a corner, walked exactly
C20_Witness ==
    /\ returned # <<>>
    /\ arg.walked_path = arg.route_poly
    /\ Len(arg.route_poly) = 3
    /\ arg.route_poly[1][1] # arg.route_poly[2][1]
    /\ arg.route_poly[2][2] # arg.route_poly[3][2]
    /\ returned.total = 100000

\* C21: a result read from a registered session carries the level the
\* session was started at and the weight of that level, raw_score as
\* calculate_final_score gives it for the session's path and route, score =
\* raw_score * weight within [0, 100 * weight], and destination_reached
\* exactly when the destination bonus is above 0; no act changes the level.
C21_WeightedResult ==
    [][/\ (call'.op = "start" /\ call'.generated)
            => sessions'[call'.sid].level = call'.level
       /\ (call'.op = "act" /\ call'.sid \in DOMAIN sessions)
            => sessions'[call'.sid].level = sessions[call'.sid].level
       /\ (call'.op = "result" /\ Has(ret', "raw_score"))
            => LET state == sessions[call'.sid]
                   scored == calculate_final_score(state.walked_path, state.route_poly)
                   weight == LEVEL_CONFIG[state.level].weight
               IN  /\ ret'.level = state.level
                   /\ ret'.weight = weight
                   /\ ret'.raw_score = scored.total
                   /\ ret'.score = ret'.raw_score * weight
                   /\ ret'.score >= 0 /\ ret'.score <= 100000 * weight
                   /\ ret'.destination_reached = (scored.dest > 0)]_vars

\* a result of a session of level 6 or more that walked off the start
C21_Witness ==
    /\ call.op = "result"
    /\ Has(ret, "raw_score")
    /\ ret.level >= 6
    /\ ret.weight = ret.level
    /\ ret.raw_score > 0
    /\ ret.score = ret.raw_score * ret.weight
    /\ ~ret.destination_reached

\* C22: a start, act or result on one session id leaves every other id as
\* it was, in the registry or out of it, with every field of its state; and
\* the state of a registered session is the one its own start and acts give
\* when run alone, whatever was done on other ids in between.
C22_Independent ==
    /\ [](\A b \in DOMAIN sessions : sessions[b] = hist[b].alone)
    /\ [][\A b \in SessionIds :
            (Has(call', "sid") /\ b # call'.sid)
                => /\ (b \in DOMAIN sessions') = (b \in DOMAIN sessions)
                   /\ b \in DOMAIN sessions => sessions'[b] = sessions[b]]_vars

\* s2 walked a step between the start of s1 and a turn of s1
C22_Witness ==
    /\ "s1" \in DOMAIN sessions /\ "s2" \in DOMAIN sessions
    /\ call.op = "act" /\ call.sid = "s1"
    /\ hist["s1"].acts = 1 /\ hist["s2"].acts = 1
    /\ hist["s2"].forwards = 1
    /\ sessions["s1"].current_heading # sessions["s2"].current_heading
    /\ sessions["s1"].walked_path # sessions["s2"].walked_path

\* the artifacts emitted so far are those of task indices 0, 1, ... in
\* this order, one each; the artifact of a task whose route could not be
\* generated holds score 0 and the error, any other one the result of the
\* session that was played
RunArtifacts ==
    assessment # <<>> =>
        /\ Len(assessment.artifacts) = assessment.task_index
        /\ assessment.task_index <= assessment.num_tasks
        /\ assessment.phase = "completed" => assessment.task_index = assessment.num_tasks
        /\ \A i \in 1..Len(assessment.artifacts) :
            LET res == assessment.artifacts[i]
                level == determine_level(TaskIndex(i - 1))
            IN  /\ res.task_index = i - 1
                /\ IF generate_route(world, level, 1000 + level).ok
                   THEN Has(res, "raw_score") /\ res.level = level
                   ELSE res = [score |-> 0, error |-> "Failed to generate route",
                               task_index |-> i - 1]

\* what is left of a run: tasks to report, then the position within a task,
\* then the prompts the step guard still allows
RunRank(a) ==
    <<a.num_tasks - a.task_index,
      IF a.phase = "start" THEN 2 ELSE IF a.phase = "play" THEN 1 ELSE 0,
      step_guard_limit - a.step_guard>>

RunLess(x, y) ==
    \/ x[1] < y[1]
    \/ x[1] = y[1] /\ x[2] < y[2]
    \/ x[1] = y[1] /\ x[2] = y[2] /\ x[3] < y[3]

\* C23: a task whose start fails is reported with score 0 and its error,
\* and the run goes on: every task index 0 .. num_tasks - 1 gets exactly
\* one artifact, in increasing order; until the run has completed it always
\* has a next step (a start, a prompt, the completion, or the result of a
\* task whose play is over), and every step brings it nearer to completion.
C23_RunGoesOn ==
    /\ []RunArtifacts
    /\ []((assessment # <<>> /\ assessment.phase # "completed")
            => \/ ENABLED (RunStart \/ RunAct \/ RunComplete)
               \/ assessment.phase = "play" /\ play_over(assessment, ret))
    /\ [][assessment # <<>> =>
            /\ assessment' # <<>>
            /\ RunLess(RunRank(assessment'), RunRank(assessment))]_vars

\* a completed run of three tasks, the second lost at start, the third played
C23_Witness ==
    /\ assessment # <<>>
    /\ assessment.phase = "completed"
    /\ assessment.num_tasks = 3
    /\ Has(assessment.artifacts[1], "raw_score")
    /\ assessment.artifacts[2].score = 0 /\ Has(assessment.artifacts[2], "error")
    /\ Has(assessment.artifacts[3], "raw_score") /\ assessment.artifacts[3].level = 3

\* C24: with the credential absent the constructor fails, and no start call
\* returns the credential error of a session.
C24_FatalAtStartup ==
    /\ (returned # <<>> /\ Strip(arg.GOOGLE_MAPS_API_KEY) = <<>>) => Has(returned, "raised")
    /\ ~(Has(ret, "error") /\ ret.error = MissingKeyError)

\* what each turn command of RawActions with a finite argument asks for:
\* degrees clockwise
SignedTurn ==
    [a \in {Left, Right45, LeftWide, RightTen, RightLoud} |->
        CASE a = Left -> -90
          [] a = Right45 -> 45
          [] a = LeftWide -> -370
          [] a = RightTen -> 10
          [] a = RightLoud -> 10]

\* C25: l d turns the heading to (heading - d) mod 360 and r d to
\* (heading + d) mod 360, d = 90 without an argument, whatever the case and
\* the blanks around the command (a heading or an argument that is not
\* finite gives nan, as float arithmetic does); a turn leaves the position
\* and walked_path alone, a forward move leaves the heading alone.
C25_TurnCommands ==
    [][(call'.op = "act" /\ call'.sid \in DOMAIN sessions) =>
        LET a == call'.action
            old == sessions[call'.sid]
            new == sessions'[call'.sid]
        IN  /\ a \in DOMAIN SignedTurn \cup {LeftNaN} =>
                /\ new.current_pos = old.current_pos
                /\ new.walked_path = old.walked_path
            /\ a \in DOMAIN SignedTurn =>
                IF old.current_heading.k = "fin"
                THEN /\ new.current_heading.k = "fin"
                     /\ new.current_heading.v \in 0..359
                     /\ (new.current_heading.v
                            - (old.current_heading.v + SignedTurn[a])) % 360 = 0
                ELSE new.current_heading = NaN
            /\ a = LeftNaN => new.current_heading = NaN
            /\ a \in {Forward, ForwardLoud} =>
                /\ new.current_heading = old.current_heading
                /\ Len(new.walked_path) = Len(old.walked_path) + 1]_vars

\* a forward move, then a turn written in capitals between blanks
C25_Witness ==
    /\ call.op = "act" /\ call.action = RightLoud
    /\ "s1" \in DOMAIN sessions
    /\ hist["s1"].acts = 2 /\ hist["s1"].forwards = 1
    /\ sessions["s1"].current_heading.k = "fin"
    /\ sessions["s1"].current_heading
         = Fin((generate_route(world, sessions["s1"].level,
                               1000 + sessions["s1"].level).data.start_heading.v + 10) % 360)

\* C26: after any sequence of act commands the heading of a session is a
\* number of [0, 360).
C26_HeadingWraps ==
    \A b \in DOMAIN sessions :
        /\ sessions[b].current_heading.k = "fin"
        /\ sessions[b].current_heading.v >= 0
        /\ sessions[b].current_heading.v < 360

WaypointRoutes ==
    {id \in DOMAIN runs : /\ runs[id].status = "returned"
                          /\ LEVEL_CONFIG[runs[id].level].waypoints >= 1}

Answered == {id \in DOMAIN runs : runs[id].answer # <<>> /\ runs[id].answer.status = "ok"}

\* C29 as stated: a route is returned only from an answer in which the start
\* address and the end address of every leg are inside the region.
C29_RegionOfEveryLeg ==
    \A id \in Answered :
        runs[id].route.ok =>
            \A i \in 1..Len(runs[id].answer.legs) :
                /\ is_manhattan(runs[id].answer.legs[i].start_address)
                /\ is_manhattan(runs[id].answer.legs[i].end_address)

\* C29: a route is returned only from an answer in which the start address
\* of the first leg and the end address of every leg are inside the region;
\* an answer with one of these outside is turned down.
C29_RegionOfEnds ==
    \A id \in Answered :
        runs[id].route.ok =>
            /\ is_manhattan(runs[id].answer.legs[1].start_address)
            /\ \A i \in 1..Len(runs[id].answer.legs) :
                    is_manhattan(runs[id].answer.legs[i].end_address)

\* an answer whose first leg ends outside the region, turned down
C29_Witness ==
    /\ "g1" \in Answered
    /\ Len(runs["g1"].answer.legs) = 2
    /\ is_manhattan(runs["g1"].answer.legs[1].start_address)
    /\ ~is_manhattan(runs["g1"].answer.legs[1].end_address)
    /\ is_manhattan(runs["g1"].answer.legs[2].end_address)
    /\ ~runs["g1"].route.ok
    /\ runs["g1"].rejected > 0

\* the runs that returned a route
Returned == {id \in DOMAIN runs : runs[id].status = "returned"}

\* C30: in a route returned, the last waypoint is the last point of the
\* truncated polyline, the waypoints before it are the start location of
\* the first leg and the end location of every leg but the last, the start
\* position is the first point of the polyline, and the summed leg distances
\* and the length of the decoded polyline were at least target_dist.
C30_RouteAssembly ==
    \A id \in Returned :
        LET r == runs[id].route.data
            legs == runs[id].answer.legs
            poly == runs[id].answer.overview_polyline
            target_dist == LEVEL_CONFIG[runs[id].level].dist
            last == Len(r.generated_waypoints)
        IN  /\ last = Len(legs) + 1
            /\ r.generated_waypoints[last] = r.route_poly[Len(r.route_poly)]
            /\ r.generated_waypoints[1] = legs[1].start_location
            /\ \A i \in 2..(last - 1) : r.generated_waypoints[i] = legs[i - 1].end_location
            /\ r.start_pos = r.route_poly[1]
            /\ r.start_pos = poly[1]
            /\ SumDistances(legs) >= target_dist
            /\ polyline_length_meters(poly) >= target_dist * 10

\* a route of two legs whose last waypoint the truncation moved away from
\* the end of the last leg
C30_Witness ==
    /\ "g1" \in Returned
    /\ Len(runs["g1"].answer.legs) = 2
    /\ Len(runs["g1"].route.data.generated_waypoints) = 3
    /\ runs["g1"].route.data.generated_waypoints[3] # runs["g1"].answer.legs[2].end_location
    /\ runs["g1"].route.data.generated_waypoints[2] = runs["g1"].answer.legs[1].end_location
    /\ world = WorldOk("loop")

NoOverride(final, route_poly) ==
    /\ IsFinite(final)
    /\ HavDm(final[1].v, final[2].v, route_poly[Len(route_poly)][1].v,
             route_poly[Len(route_poly)][2].v) >= 500
    /\ HavDm(final[1].v, final[2].v, route_poly[1][1].v, route_poly[1][2].v) >= 50

\* the distance of p to segment i of the route
ToSegment(p, route_poly, i) ==
    point_to_segment_distance(p, route_poly[i], route_poly[i + 1])

\* i is the closest segment to p, the earliest of those equally close
Closest(p, route_poly, i) ==
    /\ \A j \in 1..(Len(route_poly) - 1) : ToSegment(p, route_poly, i) <= ToSegment(p, route_poly, j)
    /\ \A j \in 1..(i - 1) : ToSegment(p, route_poly, i) < ToSegment(p, route_poly, j)

\* the progress ratio the projection gives for a final position
ProgressOf(final, route_poly) ==
    projected_progress(final, route_poly, best_segment(final, route_poly))

\* the ratio for closest segment i and projection parameter t
ProgressAt(route_poly, i, t) ==
    /\ 0 <= t.n /\ t.n <= t.d
    /\ returned.progress =
            ((polyline_length_meters(SubSeq(route_poly, 1, i))
                + DivT(SegmentLength(route_poly, i) * t.n, t.d)) * 10000)
                    \div polyline_length_meters(route_poly)

\* C32: when neither override applies the progress ratio is (length of the
\* segments before the closest segment + t * length of the closest segment)
\* / total length, t the clamped projection parameter on the closest
\* segment, the earliest one of those equally close; a final position whose
\* closest segment comes later has no smaller ratio; within 5 m of the start
\* of the route, without the bonus, the ratio is 0.
C32_ProgressRatio ==
    returned # <<>> =>
        LET final == arg.walked_path[Len(arg.walked_path)]
            route_poly == arg.route_poly
        IN  /\ NoOverride(final, route_poly) =>
                /\ \E i \in 1..(Len(route_poly) - 1) :
                        /\ Closest(final, route_poly, i)
                        /\ ProgressAt(route_poly, i,
                                      Projection(final, route_poly[i], route_poly[i + 1]))
                /\ \A g \in ScoreStops(route_poly[1]) :
                        (/\ NoOverride(g, route_poly)
                         /\ best_segment(g, route_poly) > best_segment(final, route_poly))
                            => ProgressOf(g, route_poly) >= returned.progress
            /\ (/\ IsFinite(final)
                /\ returned.dest = 0
                /\ HavDm(final[1].v, final[2].v, route_poly[1][1].v, route_poly[1][2].v) < 50)
                    => returned.progress = 0

\* a route that goes to a corner and back, the walk ending beside it: both
\* segments are equally close and the first one counts
C32_Witness ==
    /\ returned # <<>>
    /\ Len(arg.route_poly) = 3
    /\ arg.route_poly[3] = arg.route_poly[1]
    /\ NoOverride(arg.walked_path[Len(arg.walked_path)], arg.route_poly)
    /\ ToSegment(arg.walked_path[Len(arg.walked_path)], arg.route_poly, 1)
            = ToSegment(arg.walked_path[Len(arg.walked_path)], arg.route_poly, 2)
    /\ returned.progress > 0 /\ returned.progress < 5000

\* the last call resolved the level of a start on the legacy orchestrator
LevelResolved == call.op = "_determine_level" /\ Has(call, "unselected")

CappedTasks(config) ==
    LET n == IF config.num_tasks = Absent THEN 10 ELSE config.num_tasks.v
    IN  IF n < 1 THEN 1 ELSE IF n > 50 THEN 50 ELSE n

\* C34: a run requested with num_tasks absent, zero, negative or above 50
\* (or any other integer) plays max(1, min(50, num_tasks)) tasks, 10 when
\* absent: it never holds more results than that, it is completed only with
\* exactly that many, and from then on nothing is added.
C34_TaskCountCapped ==
    /\ [](assessment # <<>>
            => /\ assessment.num_tasks = CappedTasks(assessment.config)
               /\ assessment.num_tasks = Max(1, Min(50, CappedTasks(assessment.config)))
               /\ Len(assessment.artifacts) <= CappedTasks(assessment.config)
               /\ assessment.task_index = Len(assessment.artifacts))
    /\ [](assessment # <<>> /\ assessment.phase = "completed"
            => Len(assessment.artifacts) = CappedTasks(assessment.config))
    /\ [][assessment # <<>> /\ assessment.phase = "completed"
            => assessment' = assessment]_vars

\* a run requested with 51 tasks is completed with 50 results
C34_Witness ==
    /\ assessment # <<>>
    /\ assessment.config.num_tasks = IntField(51)
    /\ assessment.phase = "completed"
    /\ Len(assessment.artifacts) = 50

\* walked_path of a session record starts at the first point of the route
\* and ends at the current position
PathAnchored(state) ==
    /\ state.walked_path # <<>>
    /\ state.walked_path[1] = state.route_poly[1]
    /\ state.walked_path[Len(state.walked_path)] = state.current_pos

\* q is p, or p with one point appended
SameOrOneMore(p, q) ==
    \/ q = p
    \/ Len(q) = Len(p) + 1 /\ SubSeq(q, 1, Len(p)) = p

\* C35: walked_path of every registered session is non-empty, starts at the
\* start of the route and ends at current_pos; an act on a session leaves
\* its walked_path as it was or appends one point to it.
C35_WalkedPath ==
    /\ [](\A sid \in Registered : PathAnchored(sessions[sid]))
    /\ [][\A sid \in Registered :
            call'.op = "act" /\ call'.sid = sid /\ sid \in DOMAIN sessions'
                => SameOrOneMore(sessions[sid].walked_path, sessions'[sid].walked_path)]_vars

\* three acts on a session, two of them steps: the path holds three points
\* and ends where the session stands, away from the start
C35_Witness ==
    /\ ActedOn("s1")
    /\ "s1" \in Registered
    /\ hist["s1"].acts = 3
    /\ Len(sessions["s1"].walked_path) = 3
    /\ sessions["s1"].walked_path[3] = sessions["s1"].current_pos
    /\ sessions["s1"].walked_path[3] # sessions["s1"].walked_path[1]

\* the session of the task being played
PlayedSession == task_session(assessment.task_index)

\* C36: in a run, the loop of a started task ends on done=true with no more
\* passes than max_steps (at most 501, below the guard of 2000), and the
\* result call that follows removes the session: no session of an earlier
\* task is registered while a later one is dealt with, and none at all when
\* the run is completed.
C36_RunLeavesNoSession ==
    /\ [](assessment # <<>> /\ assessment.phase = "play"
            => /\ PlayedSession \in Registered
               /\ sessions[PlayedSession].max_steps <= 501
               /\ assessment.step_guard = sessions[PlayedSession].step_count
               /\ assessment.step_guard <= sessions[PlayedSession].max_steps
               /\ play_over(assessment, ret) => ret.done)
    /\ [](assessment # <<>>
            => \A i \in 0..(assessment.task_index - 1) : task_session(i) \notin Registered)
    /\ [](assessment # <<>> /\ assessment.phase = "completed" => Registered = {})

\* the step is a start call on sid, registered before it
Restarted(sid) == sid \in DOMAIN sessions /\ call'.op = "start" /\ call'.sid = sid

\* the last call was a start on a registered id that generated no route
FailedOver(sid) ==
    call.op = "start" /\ call.sid = sid /\ ~call.generated /\ sid \in DOMAIN sessions

\* C37: a start on a registered id keeps one session for it and changes no
\* other.  When the route is generated the session is a fresh one at the
\* level asked for (step_count 0, walked_path holding the start of its
\* route only); when it is not, start returns the failure and the registry
\* is as it was, and the act or result call that follows on the id is served
\* from the earlier session.
C37_RestartKeepsOne ==
    /\ [][\A sid \in SessionIds : Restarted(sid) =>
            /\ DOMAIN sessions' = DOMAIN sessions
            /\ \A other \in DOMAIN sessions \ {sid} : sessions'[other] = sessions[other]
            /\ IF call'.generated
               THEN /\ ~Has(ret', "error")
                    /\ sessions'[sid].level = call'.level
                    /\ sessions'[sid].step_count = 0
                    /\ sessions'[sid].walked_path = <<sessions'[sid].route_poly[1]>>
                    /\ sessions'[sid].current_pos = sessions'[sid].route_poly[1]
                    /\ hist'[sid].acts = 0
               ELSE /\ ret' = [error |-> "Failed to generate route", done |-> TRUE]
                    /\ sessions' = sessions]_vars
    /\ [][\A sid \in SessionIds : FailedOver(sid) /\ call'.sid = sid =>
            /\ call'.op = "act" =>
                /\ ~Has(ret', "error")
                /\ sessions'[sid].step_count = sessions[sid].step_count + 1
                /\ sessions'[sid].route_poly = sessions[sid].route_poly
            /\ call'.op = "result" =>
                /\ Has(ret', "raw_score")
                /\ ret'.level = sessions[sid].level
                /\ sid \notin DOMAIN sessions']_vars

\* a start at a level whose route cannot be generated, on the id of a
\* session that has walked one step
C37_Witness ==
    /\ FailedOver("s1")
    /\ call.level = 6
    /\ sessions["s1"].level = 1
    /\ sessions["s1"].step_count = 2
    /\ Len(sessions["s1"].walked_path) = 2

\* the level the task of index i of a run is played at
RunLevel(i) == IF i <= 9 THEN i + 1 ELSE 1

\* C38: in a run the task of index i is played at level i + 1 for i in
\* 0..9 and at level 1, with weight 1, for every i >= 10: the session that
\* is played has that level, and so has the result reported for the task.
C38_LevelOfTask ==
    assessment # <<>> =>
        /\ assessment.phase = "play" =>
            /\ PlayedSession \in Registered
            /\ sessions[PlayedSession].level = RunLevel(assessment.task_index)
        /\ \A n \in 1..Len(assessment.artifacts) :
            Has(assessment.artifacts[n], "level") =>
                /\ assessment.artifacts[n].level = RunLevel(n - 1)
                /\ assessment.artifacts[n].weight = RunLevel(n - 1)
                /\ assessment.artifacts[n].score
                    = RunLevel(n - 1) * assessment.artifacts[n].raw_score
                /\ n - 1 >= 10 => assessment.artifacts[n].weight = 1

\* a completed run of 50 tasks: the tenth played at level 10, the eleventh
\* and the last at level 1
C38_Witness ==
    /\ assessment # <<>>
    /\ assessment.phase = "completed"
    /\ Len(assessment.artifacts) = 50
    /\ \A n \in 1..50 : Has(assessment.artifacts[n], "level")
    /\ assessment.artifacts[10].level = 10
    /\ assessment.artifacts[11].level = 1
    /\ assessment.artifacts[11].weight = 1
    /\ assessment.artifacts[50].level = 1

====
